---- MODULE Spec2Model ----
(***************************************************************************)
(* ZigWheels dealer scraper: the crawl orchestrator (scraper.py), the page *)
(* fetcher (dealer_api_fetcher.py), the city catalog (city_discoverer.py), *)
(* the browser session (browser.py), the record model (dealer.py), the     *)
(* configuration loader (config.py, validators.py), the data saver         *)
(* (data_saver.py) and the entry point (main.py).                          *)
(*                                                                         *)
(* The program is single threaded: one control flow walks vehicle types,   *)
(* brands and cities.  pc is the position of that control flow.  Text is   *)
(* modelled as a sequence of one-character strings so that trim / lower /  *)
(* length are computed, not assumed.                                       *)
(***************************************************************************)
EXTENDS Integers, Sequences, FiniteSets, TLC

VARIABLES
    config,          \* the loaded configuration (vehicle_types, validate_data)
    cacheFile,       \* latest output/cities_*.json: "cities" value on disk
    status,          \* self.status (ScraperStatus)
    pc,              \* control position inside scrape_all
    session,         \* browser / context / page of the rendering session
    exc,             \* exception currently propagating ("none" if none)
    raised,          \* what scrape_all raised to its caller ("none" if it returned)
    vtIdx,           \* index of the vehicle type being scraped
    brandIdx,        \* index of the brand inside the vehicle type (1-based)
    attempt,         \* tenacity attempt_number of the current _scrape_brand call
    locations,       \* city list resolved for the current attempt
    cityIdx,         \* position of get_dealers_batch in its city loop
    results,         \* get_dealers_batch: insertion-ordered dict city -> dealers
    dealers_data,    \* self.dealers_data
    failed_scrapes,  \* self.failed_scrapes (the failure log)
    stats,           \* self.stats
    attemptLog,      \* history: every call of _scrape_brand by the brand loop
    navLog,          \* history: every page.goto of the current brand, with its outcome
    brandBase,       \* history: accumulator sizes when the current brand began
    e2e,             \* history: cards rendered in the current attempt
    cityLog,         \* history: catalog calls made by the latest _scrape_brand body
    args,            \* runs of one operation: the arguments it is called with
    ret,             \* runs of one operation: what the calls made so far returned
    files,           \* what DataSaver has written to the output directory
    exitCode,        \* what main returned ("running" before that)
    delayLog         \* history: inter-brand delays slept in the current vehicle
                     \* type (count) and the one slept just before this call of
                     \* _scrape_brand (last, 0 when there was none)

vars == << config, cacheFile, status, pc, session, exc, raised, vtIdx, brandIdx,
           attempt, locations, cityIdx, results, dealers_data, failed_scrapes,
           stats, attemptLog, navLog, brandBase, e2e, cityLog, args, ret, files,
           exitCode, delayLog >>

-----------------------------------------------------------------------------
(* Bounds of the model *)

\* cards rendered on one page
MaxCards == 2
\* elements of the array the city source answers with
MaxCatalog == 3
\* get_dealers calls of one navigation-level run
MaxCalls == 2

-----------------------------------------------------------------------------
(* Program constants *)

\* stop_after_attempt(3)
MaxAttempts == 3
\* _natural_delay(3, 8) between brands
DelayMin == 3
DelayMax == 8

-----------------------------------------------------------------------------
(* Text *)

Whitespace == {" ", "\n"}

RECURSIVE LStrip(_)
LStrip(s) ==
    IF s # <<>> /\ Head(s) \in Whitespace THEN LStrip(Tail(s)) ELSE s

RECURSIVE RStrip(_)
RStrip(s) ==
    IF s # <<>> /\ s[Len(s)] \in Whitespace
    THEN RStrip(SubSeq(s, 1, Len(s) - 1))
    ELSE s

\* str.strip() / String.prototype.trim()
Strip(s) == RStrip(LStrip(s))

LowerChar(c) ==
    CASE c = "A" -> "a"
      [] c = "B" -> "b"
      [] c = "C" -> "c"
      [] c = "D" -> "d"
      [] c = "W" -> "w"
      [] OTHER -> c

\* str.lower() / String.prototype.toLowerCase()
Lower(s) == [i \in DOMAIN s |-> LowerChar(s[i])]

RECURSIVE Replace(_, _, _)
\* str.replace(old, new) for a one-character old; new is a text
Replace(s, old, new) ==
    IF s = << >> THEN << >>
    ELSE (IF Head(s) = old THEN new ELSE << Head(s) >>)
         \o Replace(Tail(s), old, new)

Empty == <<>>

-----------------------------------------------------------------------------
(* Exceptions *)

\* class hierarchy: custom_exceptions.py and the library classes the code names
ExcParent(e) ==
    CASE e = "NetworkException"   -> "ScraperException"
      [] e = "ScraperException"   -> "Exception"
      [] e = "PlaywrightTimeout"  -> "PlaywrightError"
      [] e = "PlaywrightError"    -> "Exception"
      [] e = "TypeError"          -> "Exception"
      [] e = "KeyError"           -> "Exception"
      [] e = "ConfigurationException" -> "ScraperException"
      [] e = "AttributeError"     -> "Exception"
      [] e = "OSError"            -> "Exception"
      [] e = "JSONDecodeError"    -> "Exception"
      [] e = "ConnectError"       -> "HTTPError"
      [] e = "HTTPStatusError"    -> "HTTPError"
      [] e = "HTTPError"          -> "Exception"
      [] e = "UnboundLocalError"  -> "Exception"
      [] e = "RetryError"         -> "Exception"
      [] OTHER                    -> "BaseException"

RECURSIVE IsInstance(_, _)
IsInstance(e, cls) ==
    IF e = cls THEN TRUE
    ELSE IF e \in {"none", "BaseException"} THEN FALSE
    ELSE IsInstance(ExcParent(e), cls)

-----------------------------------------------------------------------------
(* Record model: models/dealer.py *)

Sentinels == { <<"N", "/", "A">>, <<"N", "A">>, <<"n", "/", "a">> }

\* DealerData._clean_fields, one field: the sentinel test is made on the raw
\* value, and only a non-sentinel string is stripped
CleanField(v) == IF v \in Sentinels THEN Empty ELSE Strip(v)

\* DealerData(...) as _scrape_brand_via_api builds it; location is not cleaned,
\* city is never supplied on this path
DealerData(vehicle_type, brand, location, dealer_dict) ==
    [ vehicle_type |-> vehicle_type,
      brand        |-> brand,
      location     |-> location,
      dealer_name  |-> CleanField(dealer_dict.dealer_name),
      address      |-> CleanField(dealer_dict.address),
      phone        |-> CleanField(dealer_dict.phone),
      city         |-> Empty ]

\* DealerData.__post_init__ on a record given every text field: _clean_fields
\* cleans dealer_name, address, phone and city; location is not in its list
PostInit(raw) ==
    [ vehicle_type |-> raw.vehicle_type,
      brand        |-> raw.brand,
      location     |-> raw.location,
      dealer_name  |-> CleanField(raw.dealer_name),
      address      |-> CleanField(raw.address),
      phone        |-> CleanField(raw.phone),
      city         |-> CleanField(raw.city) ]

\* fault variant: the length test is left out
IsValidErrors_NoLength(d) ==
    (IF d.dealer_name = Empty THEN << "Missing dealer name" >> ELSE << >>)
    \o (IF d.address = Empty /\ d.city = Empty /\ d.location = ""
        THEN << "Missing address, city, and location" >> ELSE << >>)

\* fault variant: "or" in place of "and" in the address / city / location test
IsValidErrors_AllRequired(d) ==
    (IF d.dealer_name = Empty THEN << "Missing dealer name" >> ELSE << >>)
    \o (IF d.address = Empty \/ d.city = Empty \/ d.location = ""
        THEN << "Missing address, city, and location" >> ELSE << >>)
    \o (IF Len(d.dealer_name) < 2 THEN << "Dealer name too short" >> ELSE << >>)

\* DealerData.is_valid: the list of errors, in the order the code appends them
IsValidErrors(d) ==
    (IF d.dealer_name = Empty THEN << "Missing dealer name" >> ELSE << >>)
    \o (IF d.address = Empty /\ d.city = Empty /\ d.location = ""
        THEN << "Missing address, city, and location" >> ELSE << >>)
    \o (IF Len(d.dealer_name) < 2 THEN << "Dealer name too short" >> ELSE << >>)

is_valid(d) == IsValidErrors(d) = << >>

-----------------------------------------------------------------------------
(* Page extraction: DealerAPIFetcher._extract_dealers_from_page *)

\* A rendered dealer card: h3 and p hold the innerText of the first heading /
\* first paragraph, or are empty when the card has no such element. raises
\* marks a card whose fields cannot be read (the script throws inside its
\* per-card try, e.g. a heading without innerText).
NameAbcd  == << "A", "b", "c", "d", " " >>
NameWxyz  == << "W", "x", "y", "z" >>
NameAbc   == << "A", "b", "c" >>
AddrText  == << "1", " ", "M", "G" >>

CardPool ==
    { [h3 |-> << NameAbcd >>,  p |-> << AddrText >>, raises |-> FALSE],
      [h3 |-> << NameWxyz >>,  p |-> << >>,          raises |-> FALSE],
      [h3 |-> << NameAbc >>,   p |-> << AddrText >>, raises |-> FALSE],
      [h3 |-> << >>,           p |-> << AddrText >>, raises |-> FALSE] }

\* the pages the renderer may serve: up to MaxCards cards
Pages == UNION { [1..k -> CardPool] : k \in 0..MaxCards }

CardName(card) == IF card.h3 = << >> THEN Empty ELSE Strip(card.h3[1])
CardAddress(card) == IF card.p = << >> THEN Empty ELSE Strip(card.p[1])
\* fault variant: the key is the name as rendered, case kept
CardKey_Exact(card) == Strip(CardName(card))
\* line 99: dealerName.toLowerCase().trim()
CardKey(card) == Strip(Lower(CardName(card)))
\* lines 88-97: the cards of the model hold no tel: link and no run of digits
CardPhone(card) == Empty

\* fault variant: only the early return of line 70 filters short names
CardAccepted_MinTwo(card, seenNames) ==
    /\ CardName(card) # Empty
    /\ Len(CardName(card)) >= 2
    /\ Strip(Lower(CardName(card))) \notin seenNames

\* the per-card test of the script: pushed iff the key is new and the name is
\* longer than 3 characters (a name shorter than 2 returns before that)
CardAccepted(card, seenNames) ==
    /\ CardName(card) # Empty
    /\ Len(CardName(card)) >= 2
    /\ CardKey(card) \notin seenNames
    /\ Len(CardName(card)) > 3

RECURSIVE ExtractLoop_Abort(_, _, _)
\* fault variant: no per-card try, the first card that throws ends forEach and
\* the script (page.evaluate raises, the page yields nothing)
ExtractLoop_Abort(cards, res, seenNames) ==
    IF cards = << >> THEN res
    ELSE LET card == Head(cards) IN
         IF card.raises THEN << >>
         ELSE
         IF CardAccepted(card, seenNames)
         THEN ExtractLoop_Abort(Tail(cards),
                          Append(res, [dealer_name |-> CardName(card),
                                       address     |-> CardAddress(card),
                                       phone       |-> CardPhone(card)]),
                          seenNames \cup {CardKey(card)})
         ELSE ExtractLoop_Abort(Tail(cards), res, seenNames)

RECURSIVE ExtractLoop(_, _, _)
ExtractLoop(cards, res, seenNames) ==
    IF cards = << >> THEN res
    ELSE LET card == Head(cards) IN
         IF card.raises
         THEN \* lines 109-111: catch (e), the card is dropped
              ExtractLoop(Tail(cards), res, seenNames)
         ELSE
         IF CardAccepted(card, seenNames)
         THEN ExtractLoop(Tail(cards),
                          Append(res, [dealer_name |-> CardName(card),
                                       address     |-> CardAddress(card),
                                       phone       |-> CardPhone(card)]),
                          seenNames \cup {CardKey(card)})
         ELSE ExtractLoop(Tail(cards), res, seenNames)

\* dealerCards.forEach(...) over the cards of the page
ExtractDealersFromPage(dom) == ExtractLoop(dom, << >>, {})

\* what page.evaluate gives back to Python: the list of the script, an
\* exception (the page closed or the script failed as a whole), or a value
\* that is not a list
EvaluateException(outcome) ==
    IF outcome = "eval_error" THEN "PlaywrightError" ELSE "none"

\* line 119: except Exception
ExtractExceptCatches(e) == IsInstance(e, "Exception")

\* DealerAPIFetcher._extract_dealers_from_page (lines 54-121): value is what
\* it returns, exc what it raises
ExtractDealersFromPageCall(nav) ==
    LET e == EvaluateException(nav.outcome) IN
    IF e # "none"
    THEN IF ExtractExceptCatches(e)
         THEN [value |-> << >>, exc |-> "none"]
         ELSE [value |-> << >>, exc |-> e]
    ELSE IF nav.outcome = "not_list"
         THEN \* line 117: dealers if isinstance(dealers, list) else []
              [value |-> << >>, exc |-> "none"]
         ELSE [value |-> ExtractDealersFromPage(nav.dom), exc |-> "none"]

-----------------------------------------------------------------------------
(* City catalog: core/city_discoverer.py *)

\* the order of str: by code point, capitals before small letters
CityRank(c) ==
    CASE c = "Chennai" -> 1
      [] c = "Hyderabad" -> 2
      [] c = "chennai" -> 3
      [] OTHER -> 0

RECURSIVE SortedList(_)
\* sorted(list(set(...)))
SortedList(S) ==
    IF S = {} THEN << >>
    ELSE LET m == CHOOSE x \in S : \A y \in S : CityRank(x) <= CityRank(y)
         IN << m >> \o SortedList(S \ {m})

\* an element of the fetched array: an object with its "value" ("" when the
\* key is missing or empty), or a JSON value that is not an object
CityObject(v) == [object |-> TRUE, value |-> v]
NonObject == [object |-> FALSE, value |-> ""]

\* what the CDN may answer: no connection, a status that is not 200, a body
\* that is not JSON, a JSON value that is not a list, or a list
CatalogFailure(k) == [kind |-> k, items |-> << >>]
CatalogArray(it) == [kind |-> "list", items |-> it]
CatalogItems == {CityObject("Chennai"), CityObject("")}
RawCatalogs ==
    { CatalogFailure("http_status"), CatalogFailure("not_list") }
    \cup { CatalogArray(it) :
             it \in UNION { [1..k -> CatalogItems] : k \in 0..2 } }

\* _fetch_cities_json, lines 59-64: what the request and the decoding raise
FetchException(raw) ==
    CASE raw.kind = "transport"   -> "ConnectError"
      [] raw.kind = "http_status" -> "HTTPStatusError"
      [] raw.kind = "malformed"   -> "JSONDecodeError"
      [] OTHER                    -> "none"

\* _fetch_cities_json, lines 73-81: its three except clauses
FetchExceptCatches(e) ==
    \/ IsInstance(e, "HTTPError")
    \/ IsInstance(e, "JSONDecodeError")
    \/ IsInstance(e, "Exception")

\* CityDiscoverer._fetch_cities_json: the value it returns, and the exception
\* that leaves it
FetchCitiesJsonCall(raw) ==
    LET e == FetchException(raw) IN
    IF e # "none"
    THEN [value |-> << >>,
          exc |-> IF FetchExceptCatches(e) THEN "none" ELSE e]
    ELSE IF raw.kind # "list" THEN [value |-> << >>, exc |-> "none"]
    ELSE [value |-> raw.items, exc |-> "none"]

FetchCitiesJson(raw) == FetchCitiesJsonCall(raw).value

\* line 45: city.get('value') on an element that is not an object
NamesException(cities_data) ==
    IF \E i \in DOMAIN cities_data : ~cities_data[i].object
    THEN "AttributeError" ELSE "none"

\* line 45: [city.get('value', '') for city in cities_data if city.get('value')]
CityValues(cities_data) ==
    LET v == [i \in DOMAIN cities_data |-> cities_data[i].value]
    IN SelectSeq(v, LAMBDA x : x # "")

\* fault variant: the names are sorted without set()
CitiesList_NoSet(cities_data) == CityValues(cities_data)

\* line 45: sorted(list(set(...)))
CitiesList(cities_data) ==
    LET v == CityValues(cities_data) IN SortedList({ v[i] : i \in DOMAIN v })

\* fault variant: discover_all_cities without its try / except
DiscoverExceptCatches_None(e) == FALSE

\* discover_all_cities, lines 52-54: except Exception
DiscoverExceptCatches(e) == IsInstance(e, "Exception")

\* CityDiscoverer.discover_all_cities: the value it returns, the exception
\* that leaves it, and whether _save_discovered_cities was reached
DiscoverAllCitiesCall(raw) ==
    LET fetched == FetchCitiesJsonCall(raw)
        e == IF fetched.exc # "none" THEN fetched.exc
             ELSE IF fetched.value = << >> THEN "none"
             ELSE NamesException(fetched.value)
    IN IF e # "none"
       THEN [value |-> << >>, saved |-> FALSE,
             exc |-> IF DiscoverExceptCatches(e) THEN "none" ELSE e]
       ELSE IF fetched.value = << >>
       THEN [value |-> << >>, saved |-> FALSE, exc |-> "none"]
       ELSE [value |-> CitiesList(fetched.value), saved |-> TRUE,
             exc |-> "none"]

DiscoverAllCities(raw) == DiscoverAllCitiesCall(raw).value

\* the "cities" value of the latest cache file: no file, a file that cannot
\* be opened, a file that is not JSON, a list, or a JSON value that has no
\* len() (a number)
CacheAbsent == [kind |-> "absent", cities |-> << >>]
CacheUnreadable == [kind |-> "unreadable", cities |-> << >>]
CacheMalformed == [kind |-> "malformed", cities |-> << >>]
CacheList(l) == [kind |-> "list", cities |-> l]
CacheScalar == [kind |-> "scalar", cities |-> << >>]

\* load_cities_from_file, lines 124-127: what open, json.load and the
\* len(cities) of the log line raise
LoadException(cf) ==
    CASE cf.kind = "unreadable" -> "OSError"
      [] cf.kind = "malformed"  -> "JSONDecodeError"
      [] cf.kind = "scalar"     -> "TypeError"
      [] OTHER                  -> "none"

\* load_cities_from_file, lines 130-132: except Exception
LoadExceptCatches(e) == IsInstance(e, "Exception")

\* CityDiscoverer.load_cities_from_file: the value it returns, and the
\* exception that leaves it
LoadCitiesFromFileCall(cf) ==
    LET e == LoadException(cf) IN
    IF cf.kind = "absent" THEN [value |-> << >>, exc |-> "none"]
    ELSE IF e # "none"
    THEN [value |-> << >>, exc |-> IF LoadExceptCatches(e) THEN "none" ELSE e]
    ELSE [value |-> cf.cities, exc |-> "none"]

LoadCitiesFromFile(cf) == LoadCitiesFromFileCall(cf).value

\* fault variant: the test on the loaded list is inverted ("if locations:")
CacheFalsy_Inverted(cf) == LoadCitiesFromFileCall(cf).value # << >>

\* _scrape_brand, lines 202 / 225: "not locations" on the loaded value
CacheFalsy(cf) == LoadCitiesFromFileCall(cf).value = << >>

\* the cache after discover_all_cities: _save_discovered_cities writes the
\* sorted list whenever the fetched array was non-empty
CacheAfterDiscover(cf, raw) ==
    IF ~DiscoverAllCitiesCall(raw).saved THEN cf
    ELSE CacheList(DiscoverAllCities(raw))

-----------------------------------------------------------------------------
(* Configuration: core/config.py, and the brand entry formats of scraper.py *)

LocAll == [tag |-> "all", cities |-> << >>]
LocNone == [tag |-> "none", cities |-> << >>]
LocList(l) == [tag |-> "list", cities |-> l]

\* old format (a string) and new format (a dict) of a brand entry
BrandStr(n) == [format |-> "str", name |-> n, locations |-> LocNone]
BrandDict(n, loc) == [format |-> "dict", name |-> n, locations |-> loc]

\* lines 119-124: brand_name, locations of a brand entry
BrandName(brand_config) == brand_config.name

\* fault variant: the locations of a dict entry are not read (a wrong key)
BrandLocations_Unread(brand_config) == LocNone

BrandLocations(brand_config) ==
    IF brand_config.format = "str" THEN LocNone ELSE brand_config.locations

ExplicitCities == << "Hyderabad", "Chennai" >>

\* fault variant: when the fetch gave no city the brand falls back to a fixed
\* list instead of returning
FreshLocations_Fallback(fetched) ==
    [skip |-> FALSE,
     locations |-> IF fetched = << >> THEN ExplicitCities ELSE fetched]

\* _scrape_brand, lines 204-208 and 226-228: the list the brand crawls after a
\* fresh fetch, or no crawl at all when the fetch gave no city
FreshLocations(fetched) ==
    [skip |-> fetched = << >>, locations |-> fetched]

\* the "base_url" key of a vehicle type (config.py, lines 48 and 52), which
\* validate_config does not require
BaseUrl(u) == [set |-> TRUE, value |-> u]
NoBaseUrl == [set |-> FALSE, value |-> ""]
CarsBaseUrl == BaseUrl("https://www.zigwheels.com/dealers")
BikesBaseUrl == BaseUrl("https://www.zigwheels.com/bikes/dealers")

VehicleTypes(locBmw, locHero) ==
    << [name |-> "cars", base_url |-> CarsBaseUrl,
        brands |-> << BrandDict("bmw", locBmw), BrandStr("tata") >>],
       [name |-> "bikes", base_url |-> BikesBaseUrl,
        brands |-> << BrandDict("hero", locHero) >>] >>

\* a configuration file whose "cars" entry has no "base_url"
WithoutCarsBaseUrl(vts) == [vts EXCEPT ![1].base_url = NoBaseUrl]

Configs ==
    { [vehicle_types |-> VehicleTypes(lb, lh), validate_data |-> v] :
        lb \in {LocList(ExplicitCities), LocAll},
        lh \in {LocList(<< "Chennai" >>), LocAll},
        v \in BOOLEAN }
    \cup
    { [vehicle_types |-> WithoutCarsBaseUrl(VehicleTypes(LocAll, lh)),
       validate_data |-> v] :
        lh \in {LocList(<< "Chennai" >>), LocAll},
        v \in BOOLEAN }

\* configurations written by hand that validate_config accepts as well: a
\* city listed twice, and a list entry that is the empty string
RepeatedCities == << "Chennai", "Chennai" >>
UnnamedCities == << "", "Hyderabad" >>

IrregularConfigs ==
    { [vehicle_types |-> VehicleTypes(LocAll, lh), validate_data |-> v] :
        lh \in {LocList(RepeatedCities), LocList(UnnamedCities)},
        v \in BOOLEAN }

NumTypes == Len(config.vehicle_types)
BrandsOf(i) == config.vehicle_types[i].brands

-----------------------------------------------------------------------------
(* Browser session: core/browser.py *)

\* BrowserManager.launch_browser: every launch error becomes NetworkException
launch_browser(ok) == IF ok THEN "none" ELSE "NetworkException"

\* BrowserManager.create_context: every error becomes NetworkException
create_context(ok) == IF ok THEN "none" ELSE "NetworkException"

NoSession ==
    [playwright |-> FALSE, browser |-> "unset", context |-> "unbound",
     page |-> FALSE]

-----------------------------------------------------------------------------
(* Fetching: core/dealer_api_fetcher.py *)

\* what page.goto can do: load the page, exceed its timeout, or fail to connect
NavFailures == {"timeout", "neterror"}
NavResults ==
    { [outcome |-> "ok", dom |-> d] : d \in Pages }
    \cup { [outcome |-> o, dom |-> << >>] : o \in NavFailures }

\* the exception page.goto raises
GotoException(outcome) ==
    CASE outcome = "timeout"  -> "PlaywrightTimeout"
      [] outcome = "neterror" -> "PlaywrightError"
      [] OTHER                -> "none"

\* fault variant: get_dealers without its try / except, the navigation error
\* reaches the batch
get_dealers_Unguarded(nav) ==
    IF IsInstance(GotoException(nav.outcome), "Exception")
    THEN [dealers |-> << >>, exc |-> GotoException(nav.outcome)]
    ELSE [dealers |-> ExtractDealersFromPageCall(nav).value,
          exc |-> ExtractDealersFromPageCall(nav).exc]

\* DealerAPIFetcher.get_dealers: the whole body is inside try / except
\* Exception, which returns []; nothing is raised to the batch
get_dealers(nav) ==
    IF IsInstance(GotoException(nav.outcome), "Exception")
    THEN [dealers |-> << >>, exc |-> "none"]
    ELSE IF IsInstance(ExtractDealersFromPageCall(nav).exc, "Exception")
         THEN [dealers |-> << >>, exc |-> "none"]
         ELSE [dealers |-> ExtractDealersFromPageCall(nav).value,
               exc |-> ExtractDealersFromPageCall(nav).exc]

\* results[city] = dealers on an insertion-ordered dict
DictSet(d, k, v) ==
    IF \E i \in DOMAIN d : d[i].city = k
    THEN [i \in DOMAIN d |-> IF d[i].city = k THEN [city |-> k, dealers |-> v]
                                              ELSE d[i]]
    ELSE Append(d, [city |-> k, dealers |-> v])

\* fault variant: the dict is rebuilt for every city instead of updated
BatchStore_Rebuilt(d, city, dealers) ==
    IF dealers # << >> THEN << [city |-> city, dealers |-> dealers] >> ELSE d

\* get_dealers_batch, one iteration: the city is stored only when it has dealers
BatchStore(d, city, dealers) ==
    IF dealers # << >> THEN DictSet(d, city, dealers) ELSE d

-----------------------------------------------------------------------------
(* Aggregation: ZigWheelsProductionScraper._scrape_brand_via_api *)

\* fault variant: the dict is walked in sorted key order, not insertion order
RECURSIVE Flatten_Sorted(_)
Flatten_Sorted(d) ==
    IF d = << >> THEN << >>
    ELSE LET k == CHOOSE i \in DOMAIN d :
                    \A j \in DOMAIN d : CityRank(d[i].city) <= CityRank(d[j].city)
         IN [i \in DOMAIN d[k].dealers |->
                [city |-> d[k].city, dealer |-> d[k].dealers[i]]]
            \o Flatten_Sorted([i \in 1..(Len(d) - 1) |->
                                  IF i < k THEN d[i] ELSE d[i + 1]])

\* the dealers of the batch in iteration order, each with its city
RECURSIVE Flatten(_)
Flatten(d) ==
    IF d = << >> THEN << >>
    ELSE [i \in DOMAIN Head(d).dealers |->
             [city |-> Head(d).city, dealer |-> Head(d).dealers[i]]]
         \o Flatten(Tail(d))

\* lines 167-174: is the record appended?
Kept(dealer, validate_data) == is_valid(dealer) \/ ~validate_data

\* fault variant: a dropped record is not counted
RECURSIVE ProcessLoop_Uncounted(_, _, _, _, _)
ProcessLoop_Uncounted(items, vehicle_type, brand, validate_data, acc) ==
    IF items = << >> THEN acc
    ELSE LET dealer == DealerData(vehicle_type, brand, Head(items).city,
                                  Head(items).dealer)
         IN IF Kept(dealer, validate_data)
            THEN ProcessLoop_Uncounted(Tail(items), vehicle_type, brand,
                    validate_data,
                    [acc EXCEPT !.data = Append(@, dealer),
                                !.total_dealers = @ + 1])
            ELSE ProcessLoop_Uncounted(Tail(items), vehicle_type, brand,
                    validate_data, acc)

RECURSIVE ProcessLoop(_, _, _, _, _)
ProcessLoop(items, vehicle_type, brand, validate_data, acc) ==
    IF items = << >> THEN acc
    ELSE LET dealer == DealerData(vehicle_type, brand, Head(items).city,
                                  Head(items).dealer)
         IN IF Kept(dealer, validate_data)
            THEN ProcessLoop(Tail(items), vehicle_type, brand, validate_data,
                    [acc EXCEPT !.data = Append(@, dealer),
                                !.total_dealers = @ + 1])
            ELSE ProcessLoop(Tail(items), vehicle_type, brand, validate_data,
                    [acc EXCEPT !.invalid_data = @ + 1])

\* fault variant: successful_scrapes is assigned the batch total, not increased
\* by it
ProcessBatchResult_Assigned(d, vehicle_type, brand, validate_data, data, st) ==
    LET acc == ProcessLoop(Flatten(d), vehicle_type, brand, validate_data,
                   [data |-> data, total_dealers |-> 0,
                    invalid_data |-> st.invalid_data])
    IN [data  |-> acc.data,
        stats |-> [st EXCEPT !.invalid_data = acc.invalid_data,
                             !.successful_scrapes = acc.total_dealers]]

\* fault variant: the counters restart with every batch, they hold the numbers
\* of the latest brand only
ProcessBatchResult_Restart(d, vehicle_type, brand, validate_data, data, st) ==
    LET acc == ProcessLoop(Flatten(d), vehicle_type, brand, validate_data,
                   [data |-> data, total_dealers |-> 0, invalid_data |-> 0])
    IN [data  |-> acc.data,
        stats |-> [st EXCEPT !.invalid_data = acc.invalid_data,
                             !.successful_scrapes = acc.total_dealers]]

\* lines 148-180: the new accumulator and counters after one batch
ProcessBatchResult(d, vehicle_type, brand, validate_data, data, st) ==
    LET acc == ProcessLoop(Flatten(d), vehicle_type, brand, validate_data,
                   [data |-> data, total_dealers |-> 0,
                    invalid_data |-> st.invalid_data])
    IN [data  |-> acc.data,
        stats |-> [st EXCEPT !.invalid_data = acc.invalid_data,
                             !.successful_scrapes = @ + acc.total_dealers]]

-----------------------------------------------------------------------------
(* Retry wrapper of _scrape_brand (tenacity) and the handlers around it *)

\* retry_if_exception_type((NetworkException, PlaywrightTimeout))
RetryIfExceptionType(e) ==
    IsInstance(e, "NetworkException") \/ IsInstance(e, "PlaywrightTimeout")

\* fault variant: retry_if_result, a normal return is retried until the stop
RetryDecision_OnResult(e, attempt_number) ==
    IF e = "none" /\ attempt_number < MaxAttempts THEN "retry" ELSE "return"

\* fault variant: every outcome is retried and the stop comes one attempt late
RetryDecision_Late(e, attempt_number) ==
    IF attempt_number > MaxAttempts THEN "return" ELSE "retry"

\* fault variant: every attempt is repeated, whatever its outcome, and the
\* third one ends the brand with RetryError
RetryDecision_Always(e, attempt_number) ==
    IF attempt_number < MaxAttempts THEN "retry" ELSE "retry_error"

\* what the wrapper does when an attempt ends: "return", "retry", raise
\* RetryError once stop_after_attempt(3) is reached, or re-raise an exception
\* the retry predicate rejects
RetryDecision(e, attempt_number) ==
    IF e = "none" THEN "return"
    ELSE IF ~RetryIfExceptionType(e) THEN "reraise"
    ELSE IF attempt_number >= MaxAttempts THEN "retry_error"
    ELSE "retry"

\* fault variant: except ScraperException around the brand call
BrandExceptCatches_Typed(e) == IsInstance(e, "ScraperException")

\* _scrape_vehicle_type: except Exception around the brand call
BrandExceptCatches(e) == IsInstance(e, "Exception")

\* fault variant: the last except clause re-raises instead of wrapping
OuterExcept_Reraise(e, st) ==
    IF e = "none" THEN [status |-> st, raised |-> "none"]
    ELSE [status |-> "failed", raised |-> e]

\* scrape_all, lines 94-105: the status and the exception the caller gets
OuterExcept(e, st) ==
    IF e = "none" THEN [status |-> st, raised |-> "none"]
    ELSE IF IsInstance(e, "NetworkException")
         THEN [status |-> "failed", raised |-> e]
    ELSE IF IsInstance(e, "ScraperException")
         THEN [status |-> "failed", raised |-> e]
    ELSE IF IsInstance(e, "Exception")
         THEN [status |-> "failed", raised |-> "ScraperException"]
    ELSE [status |-> st, raised |-> e]

-----------------------------------------------------------------------------
(* The claim-side reading of a page *)

\* a card the page script takes for a dealer: it has a heading whose trimmed
\* text is longer than 3 characters (the record built from it passes is_valid)
ValidCard(card) == card.h3 # << >> /\ Len(Strip(card.h3[1])) > 3

DistinctCards(dom) ==
    \A i, j \in DOMAIN dom :
        i # j => Strip(Lower(Strip(dom[i].h3[1]))) # Strip(Lower(Strip(dom[j].h3[1])))

AllValidDistinct(dom) ==
    /\ \A i \in DOMAIN dom : ValidCard(dom[i])
    /\ DistinctCards(dom)

-----------------------------------------------------------------------------
(* State machine *)

CurType == config.vehicle_types[vtIdx]
CurBrand == BrandsOf(vtIdx)[brandIdx]

ZeroStats ==
    [total_attempts |-> 0, successful_scrapes |-> 0, failed_scrapes |-> 0,
     invalid_data |-> 0, retries |-> 0]

\* no record-level run is in progress
NoArgs == [vehicle_type |-> "", brand |-> "", location |-> "",
           dealer_name |-> Empty, address |-> Empty, phone |-> Empty,
           city |-> Empty]
NoReturn == [stage |-> "none"]
NoDelay == [count |-> 0, last |-> 0]

InitialCaches == {CacheAbsent, CacheList(<< "Hyderabad" >>)}

\* ZigWheelsProductionScraper.__init__ with a configuration that loaded
Init ==
    /\ config \in Configs
    /\ cacheFile \in InitialCaches
    /\ status = "idle"
    /\ pc = "idle"
    /\ session = NoSession
    /\ exc = "none"
    /\ raised = "none"
    /\ vtIdx = 1
    /\ brandIdx = 1
    /\ attempt = 0
    /\ locations = << >>
    /\ cityIdx = 1
    /\ results = << >>
    /\ dealers_data = << >>
    /\ failed_scrapes = << >>
    /\ stats = ZeroStats
    /\ attemptLog = << >>
    /\ navLog = << >>
    /\ brandBase = [records |-> 0, successful |-> 0, invalid |-> 0,
                    failures |-> 0]
    /\ e2e = [clean |-> TRUE, cards |-> 0]
    /\ cityLog = << >>
    /\ args = NoArgs
    /\ ret = NoReturn
    /\ files = << >>
    /\ exitCode = "running"
    /\ delayLog = NoDelay

\* the same construction with a hand-written configuration, and a cities file
\* that may hold an entry without a name
IrregularCaches == {CacheAbsent, CacheList(<< "" >>)}

InitIrregular ==
    /\ config \in IrregularConfigs
    /\ cacheFile \in IrregularCaches
    /\ status = "idle"
    /\ pc = "idle"
    /\ session = NoSession
    /\ exc = "none"
    /\ raised = "none"
    /\ vtIdx = 1
    /\ brandIdx = 1
    /\ attempt = 0
    /\ locations = << >>
    /\ cityIdx = 1
    /\ results = << >>
    /\ dealers_data = << >>
    /\ failed_scrapes = << >>
    /\ stats = ZeroStats
    /\ attemptLog = << >>
    /\ navLog = << >>
    /\ brandBase = [records |-> 0, successful |-> 0, invalid |-> 0,
                    failures |-> 0]
    /\ e2e = [clean |-> TRUE, cards |-> 0]
    /\ cityLog = << >>
    /\ args = NoArgs
    /\ ret = NoReturn
    /\ files = << >>
    /\ exitCode = "running"
    /\ delayLog = NoDelay

\* scrape_all, line 70
ScrapeAll ==
    /\ pc = "idle"
    /\ status' = "running"
    /\ pc' = "playwright"
    /\ UNCHANGED << config, cacheFile, session, exc, raised, vtIdx, brandIdx,
                    attempt, locations, cityIdx, results, dealers_data,
                    failed_scrapes, stats, attemptLog, navLog, brandBase, e2e >>
    /\ UNCHANGED << cityLog, args, ret, files, exitCode, delayLog >>

\* async with async_playwright() as p, line 76
StartPlaywright ==
    /\ pc = "playwright"
    /\ \E ok \in BOOLEAN :
         IF ok
         THEN /\ session' = [session EXCEPT !.playwright = TRUE]
              /\ pc' = "launch"
              /\ exc' = exc
         ELSE /\ exc' = "PlaywrightError"
              /\ pc' = "handler"
              /\ session' = session
    /\ UNCHANGED << config, cacheFile, status, raised, vtIdx, brandIdx, attempt,
                    locations, cityIdx, results, dealers_data, failed_scrapes,
                    stats, attemptLog, navLog, brandBase, e2e >>
    /\ UNCHANGED << cityLog, args, ret, files, exitCode, delayLog >>

\* line 77: the launch is outside the inner try, so its failure skips the
\* finally block
LaunchBrowser ==
    /\ pc = "launch"
    /\ \E ok \in BOOLEAN :
         IF launch_browser(ok) = "none"
         THEN /\ session' = [session EXCEPT !.browser = "open"]
              /\ pc' = "create_context"
              /\ exc' = exc
         ELSE /\ exc' = launch_browser(ok)
              /\ pc' = "handler"
              /\ session' = session
    /\ UNCHANGED << config, cacheFile, status, raised, vtIdx, brandIdx, attempt,
                    locations, cityIdx, results, dealers_data, failed_scrapes,
                    stats, attemptLog, navLog, brandBase, e2e >>
    /\ UNCHANGED << cityLog, args, ret, files, exitCode, delayLog >>

\* line 80
CreateContext ==
    /\ pc = "create_context"
    /\ \E ok \in BOOLEAN :
         IF create_context(ok) = "none"
         THEN /\ session' = [session EXCEPT !.context = "open"]
              /\ pc' = "new_page"
              /\ exc' = exc
         ELSE /\ exc' = create_context(ok)
              /\ pc' = "finally"
              /\ session' = session
    /\ UNCHANGED << config, cacheFile, status, raised, vtIdx, brandIdx, attempt,
                    locations, cityIdx, results, dealers_data, failed_scrapes,
                    stats, attemptLog, navLog, brandBase, e2e >>
    /\ UNCHANGED << cityLog, args, ret, files, exitCode, delayLog >>

\* line 81: context.new_page() raises the library's own error
NewPage ==
    /\ pc = "new_page"
    /\ \E ok \in BOOLEAN :
         IF ok
         THEN /\ session' = [session EXCEPT !.page = TRUE]
              /\ pc' = "types"
              /\ exc' = exc
         ELSE /\ exc' = "PlaywrightError"
              /\ pc' = "finally"
              /\ session' = session
    /\ vtIdx' = 1
    /\ UNCHANGED << config, cacheFile, status, raised, brandIdx, attempt,
                    locations, cityIdx, results, dealers_data, failed_scrapes,
                    stats, attemptLog, navLog, brandBase, e2e >>
    /\ UNCHANGED << cityLog, args, ret, files, exitCode, delayLog >>

\* lines 83-87: the loop over vehicle types, then status = COMPLETED
ScrapeVehicleTypes ==
    /\ pc = "types"
    /\ IF vtIdx > NumTypes
       THEN /\ status' = "completed"
            /\ pc' = "finally"
            /\ brandIdx' = brandIdx
       ELSE /\ brandIdx' = 1
            /\ pc' = "brands"
            /\ status' = status
    /\ delayLog' = NoDelay
    /\ UNCHANGED << config, cacheFile, session, exc, raised, vtIdx, attempt,
                    locations, cityIdx, results, dealers_data, failed_scrapes,
                    stats, attemptLog, navLog, brandBase, e2e >>
    /\ UNCHANGED << cityLog, args, ret, files, exitCode >>

\* fault variant: the delay is slept before every brand, the first included
DelayBefore_Every(brand_idx) == TRUE

\* line 115: if brand_idx > 0 (brand_idx of enumerate counts from 0)
DelayBefore(brand_idx) == brand_idx > 0

\* lines 113-116: the loop over the brands of one vehicle type
BrandLoop ==
    /\ pc = "brands"
    /\ IF brandIdx > Len(BrandsOf(vtIdx))
       THEN /\ vtIdx' = vtIdx + 1
            /\ pc' = "types"
            /\ UNCHANGED << attempt, brandBase, navLog >>
       ELSE /\ pc' = IF DelayBefore(brandIdx - 1) THEN "delay" ELSE "attempt"
            /\ attempt' = 1
            /\ brandBase' = [records    |-> Len(dealers_data),
                             successful |-> stats.successful_scrapes,
                             invalid    |-> stats.invalid_data,
                             failures   |-> Len(failed_scrapes)]
            /\ navLog' = << >>
            /\ vtIdx' = vtIdx
    /\ UNCHANGED << config, cacheFile, status, session, exc, raised, brandIdx,
                    locations, cityIdx, results, dealers_data, failed_scrapes,
                    stats, attemptLog, e2e >>
    /\ UNCHANGED << cityLog, args, ret, files, exitCode, delayLog >>

\* line 116: _natural_delay(3, 8)
NaturalDelay ==
    /\ pc = "delay"
    /\ \E delay \in DelayMin..DelayMax :
         delayLog' = [count |-> delayLog.count + 1, last |-> delay]
    /\ pc' = "attempt"
    /\ UNCHANGED << config, cacheFile, status, session, exc, raised, vtIdx,
                    brandIdx, attempt, locations, cityIdx, results,
                    dealers_data, failed_scrapes, stats, attemptLog, navLog,
                    brandBase, e2e >>
    /\ UNCHANGED << cityLog, args, ret, files, exitCode >>

\* line 127: the arguments of the call are evaluated inside the try, and
\* vehicle_config['base_url'] raises KeyError when the key is missing
BrandCallException(vehicle_config) ==
    IF vehicle_config.base_url.set THEN "none" ELSE "KeyError"

\* line 127 and _scrape_brand, lines 189-229 up to the batch call: the call,
\* and the city list
ScrapeBrand ==
    /\ pc = "attempt"
    /\ attemptLog' = Append(attemptLog,
                        [vehicle_type |-> CurType.name,
                         brand |-> BrandName(CurBrand),
                         index |-> << vtIdx, brandIdx >>,
                         entered |-> BrandCallException(CurType) = "none",
                         records |-> Len(dealers_data)])
    /\ e2e' = [clean |-> TRUE, cards |-> 0]
    /\ cityIdx' = 1
    /\ results' = << >>
    /\ IF BrandCallException(CurType) # "none"
       THEN /\ exc' = BrandCallException(CurType)
            /\ pc' = "brand_end"
            /\ cityLog' = << >>
            /\ locations' = locations
       ELSE /\ cityLog' = IF BrandLocations(CurBrand).tag = "list"
                          THEN << >>
                          ELSE << [call  |-> "load_cities_from_file",
                                   empty |-> CacheFalsy(cacheFile)] >>
            /\ exc' = exc
            /\ LET loc == BrandLocations(CurBrand) IN
               IF loc.tag = "list"
               THEN /\ locations' = loc.cities
                    /\ pc' = IF loc.cities = << >> THEN "process" ELSE "batch"
               ELSE IF CacheFalsy(cacheFile)
               THEN /\ pc' = "discover"
                    /\ locations' = locations
               ELSE /\ locations' = LoadCitiesFromFile(cacheFile)
                    /\ pc' = "batch"
    /\ delayLog' = [delayLog EXCEPT !.last = 0]
    /\ UNCHANGED << config, cacheFile, status, session, raised, vtIdx, brandIdx,
                    attempt, dealers_data, failed_scrapes, stats, navLog,
                    brandBase >>
    /\ UNCHANGED << args, ret, files, exitCode >>

\* lines 204 / 226: discover_all_cities, which also writes the cache file
\* (the write can fail silently); no city means the brand returns at once
Discover ==
    /\ pc = "discover"
    /\ \E raw \in RawCatalogs, saved \in BOOLEAN :
         /\ locations' = FreshLocations(DiscoverAllCities(raw)).locations
         /\ cacheFile' = IF saved THEN CacheAfterDiscover(cacheFile, raw)
                                  ELSE cacheFile
         /\ pc' = IF FreshLocations(DiscoverAllCities(raw)).skip
                  THEN "attempt_end" ELSE "batch"
         /\ cityLog' = Append(cityLog,
                            [call  |-> "discover_all_cities",
                             empty |-> DiscoverAllCities(raw) = << >>])
    /\ UNCHANGED << config, status, session, exc, raised, vtIdx, brandIdx,
                    attempt, cityIdx, results, dealers_data, failed_scrapes,
                    stats, attemptLog, navLog, brandBase, e2e >>
    /\ UNCHANGED << args, ret, files, exitCode, delayLog >>

\* get_dealers_batch, one iteration of its loop over the cities
FetchCity ==
    /\ pc = "batch"
    /\ cityIdx <= Len(locations)
    /\ \E nav \in NavResults :
         LET city == locations[cityIdx]
             got  == get_dealers(nav)
         IN /\ navLog' = Append(navLog,
                            [vehicle_type |-> CurType.name,
                             brand |-> BrandName(CurBrand),
                             index |-> << vtIdx, brandIdx >>,
                             city |-> city,
                             outcome |-> nav.outcome,
                             found |-> Len(got.dealers)])
            /\ e2e' = IF e2e.clean /\ nav.outcome = "ok"
                                   /\ AllValidDistinct(nav.dom)
                       THEN [clean |-> TRUE, cards |-> e2e.cards + Len(nav.dom)]
                       ELSE [clean |-> FALSE, cards |-> 0]
            /\ IF got.exc # "none"
               THEN /\ exc' = got.exc
                    /\ pc' = "attempt_end"
                    /\ UNCHANGED << results, cityIdx >>
               ELSE /\ results' = BatchStore(results, city, got.dealers)
                    /\ cityIdx' = cityIdx + 1
                    /\ pc' = IF cityIdx = Len(locations) THEN "process"
                                                         ELSE "batch"
                    /\ exc' = exc
    /\ UNCHANGED << config, cacheFile, status, session, raised, vtIdx, brandIdx,
                    attempt, locations, dealers_data, failed_scrapes, stats,
                    attemptLog, brandBase >>
    /\ UNCHANGED << cityLog, args, ret, files, exitCode, delayLog >>

\* lines 148-182: records are built, validated and accumulated
ProcessBatch ==
    /\ pc = "process"
    /\ LET r == ProcessBatchResult(results, CurType.name, BrandName(CurBrand),
                                   config.validate_data, dealers_data, stats)
       IN /\ dealers_data' = r.data
          /\ stats' = r.stats
    /\ pc' = "attempt_end"
    /\ UNCHANGED << config, cacheFile, status, session, exc, raised, vtIdx,
                    brandIdx, attempt, locations, cityIdx, results,
                    failed_scrapes, attemptLog, navLog, brandBase, e2e >>
    /\ UNCHANGED << cityLog, args, ret, files, exitCode, delayLog >>

\* the retry wrapper, lines 184-188, when an attempt has ended
AttemptEnd ==
    /\ pc = "attempt_end"
    /\ LET decision == RetryDecision(exc, attempt) IN
       IF decision = "retry"
       THEN /\ attempt' = attempt + 1
            /\ exc' = "none"
            /\ pc' = "attempt"
       ELSE /\ exc' = IF decision = "retry_error" THEN "RetryError" ELSE exc
            /\ pc' = "brand_end"
            /\ attempt' = attempt
    /\ UNCHANGED << config, cacheFile, status, session, raised, vtIdx, brandIdx,
                    locations, cityIdx, results, dealers_data, failed_scrapes,
                    stats, attemptLog, navLog, brandBase, e2e >>
    /\ UNCHANGED << cityLog, args, ret, files, exitCode, delayLog >>

\* fault variant: the handler counts the failure it logs
BrandFailureStats_Counted(st) == [st EXCEPT !.failed_scrapes = @ + 1]

\* lines 128-135: the handler of a failed brand appends to the failure log and
\* leaves self.stats as it is
BrandFailureStats(st) == st

\* _scrape_vehicle_type, lines 126-135: a failed brand is logged and the loop
\* goes on; an exception the handler does not catch leaves the loops
BrandEnd ==
    /\ pc = "brand_end"
    /\ IF exc = "none"
       THEN /\ brandIdx' = brandIdx + 1
            /\ pc' = "brands"
            /\ UNCHANGED << failed_scrapes, exc, stats >>
       ELSE IF BrandExceptCatches(exc)
       THEN /\ failed_scrapes' = Append(failed_scrapes,
                                   [vehicle_type |-> CurType.name,
                                    brand |-> BrandName(CurBrand),
                                    index |-> << vtIdx, brandIdx >>,
                                    error |-> exc])
            /\ stats' = BrandFailureStats(stats)
            /\ exc' = "none"
            /\ brandIdx' = brandIdx + 1
            /\ pc' = "brands"
       ELSE /\ pc' = "finally"
            /\ UNCHANGED << failed_scrapes, exc, brandIdx, stats >>
    /\ UNCHANGED << config, cacheFile, status, session, raised, vtIdx, attempt,
                    locations, cityIdx, results, dealers_data,
                    attemptLog, navLog, brandBase, e2e >>
    /\ UNCHANGED << cityLog, args, ret, files, exitCode, delayLog >>

\* finally, line 90: context.close(); the name is unbound when create_context
\* raised
ContextClose ==
    /\ pc = "finally"
    /\ IF session.context = "unbound"
       THEN /\ exc' = "UnboundLocalError"
            /\ pc' = "handler"
            /\ session' = session
       ELSE \E ok \in BOOLEAN :
              IF ok
              THEN /\ session' = [session EXCEPT !.context = "closed"]
                   /\ pc' = "browser_close"
                   /\ exc' = exc
              ELSE /\ exc' = "PlaywrightError"
                   /\ pc' = "handler"
                   /\ session' = session
    /\ UNCHANGED << config, cacheFile, status, raised, vtIdx, brandIdx, attempt,
                    locations, cityIdx, results, dealers_data, failed_scrapes,
                    stats, attemptLog, navLog, brandBase, e2e >>
    /\ UNCHANGED << cityLog, args, ret, files, exitCode, delayLog >>

\* finally, lines 91-92: browser.close(), then the summary
BrowserClose ==
    /\ pc = "browser_close"
    /\ \E ok \in BOOLEAN :
         IF ok
         THEN /\ session' = [session EXCEPT !.browser = "closed"]
              /\ exc' = exc
         ELSE /\ exc' = "PlaywrightError"
              /\ session' = session
    /\ pc' = "handler"
    /\ UNCHANGED << config, cacheFile, status, raised, vtIdx, brandIdx, attempt,
                    locations, cityIdx, results, dealers_data, failed_scrapes,
                    stats, attemptLog, navLog, brandBase, e2e >>
    /\ UNCHANGED << cityLog, args, ret, files, exitCode, delayLog >>

\* lines 94-105: the except clauses of scrape_all, or its normal return
Handler ==
    /\ pc = "handler"
    /\ LET h == OuterExcept(exc, status) IN
         /\ status' = h.status
         /\ raised' = h.raised
    /\ exc' = "none"
    /\ pc' = "done"
    /\ UNCHANGED << config, cacheFile, session, vtIdx, brandIdx, attempt,
                    locations, cityIdx, results, dealers_data, failed_scrapes,
                    stats, attemptLog, navLog, brandBase, e2e >>
    /\ UNCHANGED << cityLog, args, ret, files, exitCode, delayLog >>

Next ==
    \/ ScrapeAll
    \/ StartPlaywright
    \/ LaunchBrowser
    \/ CreateContext
    \/ NewPage
    \/ ScrapeVehicleTypes
    \/ BrandLoop
    \/ NaturalDelay
    \/ ScrapeBrand
    \/ Discover
    \/ FetchCity
    \/ ProcessBatch
    \/ AttemptEnd
    \/ BrandEnd
    \/ ContextClose
    \/ BrowserClose
    \/ Handler

Spec == Init /\ [][Next]_vars

\* a run on a hand-written configuration
SpecIrregular == InitIrregular /\ [][Next]_vars

-----------------------------------------------------------------------------
(* Record-level runs: one DealerData is constructed and validated *)

\* the text a caller may pass for a field: empty, blank, padded, a sentinel,
\* a padded sentinel, one character, two characters
RawNames ==
    { << >>, << " " >>, << "A" >>, << "A", "b" >>, << " ", "A", " " >>,
      << "N", "/", "A" >>, << " ", "N", "A" >>, << "A", "b", "\n", "c" >> }
RawAddresses == { << >>, << " " >>, << "1" >>, << "N", "A" >> }
RawCities == { << >>, << "X" >>, << "n", "/", "a" >> }
RawLocations == { "", "Chennai" }
\* the text of a tel: link: digits, or digits in groups with a country code
RawPhones == { << >>, << "9", "8" >>, << "+", "9", " ", "8" >> }

RawRecords ==
    { [vehicle_type |-> "cars", brand |-> "bmw", location |-> l,
       dealer_name |-> n, address |-> a, phone |-> ph, city |-> c] :
        l \in RawLocations, n \in RawNames, a \in RawAddresses,
        ph \in RawPhones, c \in RawCities }

InitRecord ==
    /\ config = [vehicle_types |-> VehicleTypes(LocAll, LocAll),
                 validate_data |-> TRUE]
    /\ cacheFile = CacheAbsent
    /\ status = "idle"
    /\ pc = "idle"
    /\ session = NoSession
    /\ exc = "none"
    /\ raised = "none"
    /\ vtIdx = 1
    /\ brandIdx = 1
    /\ attempt = 0
    /\ locations = << >>
    /\ cityIdx = 1
    /\ results = << >>
    /\ dealers_data = << >>
    /\ failed_scrapes = << >>
    /\ stats = ZeroStats
    /\ attemptLog = << >>
    /\ navLog = << >>
    /\ brandBase = [records |-> 0, successful |-> 0, invalid |-> 0,
                    failures |-> 0]
    /\ e2e = [clean |-> TRUE, cards |-> 0]
    /\ cityLog = << >>
    /\ args \in RawRecords
    /\ ret = NoReturn
    /\ files = << >>
    /\ exitCode = "running"
    /\ delayLog = NoDelay

\* DealerData(...): the dataclass __init__ followed by __post_init__
NewDealerData ==
    /\ ret.stage = "none"
    /\ ret' = [stage |-> "dealer", dealer |-> PostInit(args)]
    /\ UNCHANGED << config, cacheFile, status, pc, session, exc, raised, vtIdx,
                    brandIdx, attempt, locations, cityIdx, results,
                    dealers_data, failed_scrapes, stats, attemptLog, navLog,
                    brandBase, e2e, cityLog, args, files, exitCode, delayLog >>

\* dealer.is_valid(): the pair (len(errors) == 0, errors)
CallIsValid ==
    /\ ret.stage = "dealer"
    /\ ret' = [stage |-> "validated", dealer |-> ret.dealer,
               valid |-> is_valid(ret.dealer),
               errors |-> IsValidErrors(ret.dealer)]
    /\ UNCHANGED << config, cacheFile, status, pc, session, exc, raised, vtIdx,
                    brandIdx, attempt, locations, cityIdx, results,
                    dealers_data, failed_scrapes, stats, attemptLog, navLog,
                    brandBase, e2e, cityLog, args, files, exitCode, delayLog >>

\* _scrape_brand_via_api, lines 168-172: the record is appended, or counted
\* as invalid
Accumulate ==
    /\ ret.stage = "validated"
    /\ ret' = [ret EXCEPT !.stage = "processed"]
    /\ IF Kept(ret.dealer, config.validate_data)
       THEN /\ dealers_data' = Append(dealers_data, ret.dealer)
            /\ stats' = stats
       ELSE /\ stats' = [stats EXCEPT !.invalid_data = @ + 1]
            /\ dealers_data' = dealers_data
    /\ UNCHANGED << config, cacheFile, status, pc, session, exc, raised, vtIdx,
                    brandIdx, attempt, locations, cityIdx, results,
                    failed_scrapes, attemptLog, navLog, brandBase, e2e,
                    cityLog, args, files, exitCode, delayLog >>

NextRecord ==
    \/ NewDealerData
    \/ CallIsValid
    \/ Accumulate

SpecRecord == InitRecord /\ [][NextRecord]_vars

-----------------------------------------------------------------------------
(* Catalog-level runs: one CityDiscoverer answers its two calls *)

\* the scraper as __init__ leaves it, which the runs of one operation keep
ScraperVars ==
    << config, cacheFile, status, pc, session, exc, raised, vtIdx, brandIdx,
       attempt, locations, cityIdx, results, dealers_data, failed_scrapes,
       stats, attemptLog, navLog, brandBase, e2e, cityLog, files, exitCode, delayLog >>

Constructed ==
    /\ config = [vehicle_types |-> VehicleTypes(LocAll, LocAll),
                 validate_data |-> TRUE]
    /\ cacheFile = CacheAbsent
    /\ status = "idle"
    /\ pc = "idle"
    /\ session = NoSession
    /\ exc = "none"
    /\ raised = "none"
    /\ vtIdx = 1
    /\ brandIdx = 1
    /\ attempt = 0
    /\ locations = << >>
    /\ cityIdx = 1
    /\ results = << >>
    /\ dealers_data = << >>
    /\ failed_scrapes = << >>
    /\ stats = ZeroStats
    /\ attemptLog = << >>
    /\ navLog = << >>
    /\ brandBase = [records |-> 0, successful |-> 0, invalid |-> 0,
                    failures |-> 0]
    /\ e2e = [clean |-> TRUE, cards |-> 0]
    /\ cityLog = << >>
    /\ files = << >>
    /\ exitCode = "running"
    /\ delayLog = NoDelay

\* the elements the CDN array may hold: names that differ in case only, an
\* object without a name, and a value that is not an object
CatalogElements ==
    { CityObject("Chennai"), CityObject("chennai"), CityObject("Hyderabad"),
      CityObject(""), NonObject }

CatalogResponses ==
    { CatalogFailure(k) :
        k \in {"transport", "http_status", "malformed", "not_list"} }
    \cup { CatalogArray(it) :
             it \in UNION { [1..k -> CatalogElements] : k \in 0..MaxCatalog } }

\* the cities files a run may find
CacheFiles ==
    { CacheAbsent, CacheUnreadable, CacheMalformed, CacheScalar,
      CacheList(<< >>), CacheList(<< "Chennai" >>),
      CacheList(<< "Hyderabad", "Hyderabad" >>),
      CacheList(<< "Chennai", "chennai" >>) }

InitCatalog ==
    /\ Constructed
    /\ args \in [response : CatalogResponses, cache : CacheFiles]
    /\ ret = NoReturn

\* await city_discoverer.discover_all_cities()
CallDiscoverAllCities ==
    /\ ret.stage = "none"
    /\ LET r == DiscoverAllCitiesCall(args.response)
       IN ret' = [stage |-> "discover_all_cities", value |-> r.value,
                  exc |-> r.exc]
    /\ UNCHANGED ScraperVars
    /\ UNCHANGED args

\* city_discoverer.load_cities_from_file()
CallLoadCitiesFromFile ==
    /\ ret.stage = "none"
    /\ LET r == LoadCitiesFromFileCall(args.cache)
       IN ret' = [stage |-> "load_cities_from_file", value |-> r.value,
                  exc |-> r.exc]
    /\ UNCHANGED ScraperVars
    /\ UNCHANGED args

NextCatalog ==
    \/ CallDiscoverAllCities
    \/ CallLoadCitiesFromFile

SpecCatalog == InitCatalog /\ [][NextCatalog]_vars

-----------------------------------------------------------------------------
(* Navigation-level runs: get_dealers builds the address of a dealer page *)

\* the address that every dealer page starts with (dealer_api_fetcher.py:33)
DealersRoot == "https://www.zigwheels.com/dealers"

\* lines 30-31: brand_slug and city_slug
BrandSlug(brand) == Strip(Lower(brand))
CitySlug(city) ==
    Replace(Replace(Strip(Lower(city)), " ", << "-" >>), ",", << >>)

\* line 33: the f-string; the root is kept as one element of the text
DealerUrl(brand, city) ==
    << DealersRoot, "/" >> \o BrandSlug(brand) \o << "/" >> \o CitySlug(city)

\* brand identifiers and city names as a configuration may spell them
RawBrands ==
    { << "b", "m", "w" >>, << "B", "M", "W" >>, << " ", "b", "m", "w" >>,
      << "a", " ", "b" >> }
RawCityNames ==
    { << "A", "b" >>, << "a", "b" >>, << "A", " ", "b" >>,
      << "A", ",", " ", "b" >>, << "A", "-", "b" >> }

InitUrl ==
    /\ Constructed
    /\ args \in [brand : RawBrands, city : RawCityNames]
    /\ ret = NoReturn

\* the page.goto calls made so far in this run
Navigated == IF ret.stage = "none" THEN << >> ELSE ret.calls

\* scraper.py:127 and 141-146, get_dealers lines 30-37: the brand is crawled
\* for one of the configured vehicle types; its base_url is passed to
\* _scrape_brand, which never uses it
CallGetDealers ==
    /\ Len(Navigated) < MaxCalls
    /\ \E i \in 1..NumTypes :
         ret' = [stage |-> "navigated",
                 calls |-> Append(Navigated,
                              [vehicle_type |-> config.vehicle_types[i].name,
                               base_url |-> config.vehicle_types[i].base_url.value,
                               brand |-> args.brand,
                               city |-> args.city,
                               url |-> DealerUrl(args.brand, args.city)])]
    /\ UNCHANGED ScraperVars
    /\ UNCHANGED args

NextUrl == CallGetDealers

SpecUrl == InitUrl /\ [][NextUrl]_vars

-----------------------------------------------------------------------------
(* Page-level runs: one dealer page is fetched and its cards are extracted *)

NameUpper == << "A", "B", "C", "D" >>
NameLower == << " ", "a", "b", "c", "d" >>
NameAb    == << "A", "b" >>
NameA     == << "A", " " >>

\* the cards a page may show: three spellings of one name, another long name,
\* names of 3, 2 and 1 characters, a card without a heading and a card whose
\* fields cannot be read
PageCards ==
    { [h3 |-> << NameUpper >>, p |-> << AddrText >>, raises |-> FALSE],
      [h3 |-> << NameLower >>, p |-> << >>,          raises |-> FALSE],
      [h3 |-> << NameAbcd >>,  p |-> << AddrText >>, raises |-> FALSE],
      [h3 |-> << NameWxyz >>,  p |-> << >>,          raises |-> FALSE],
      [h3 |-> << NameAbc >>,   p |-> << AddrText >>, raises |-> FALSE],
      [h3 |-> << NameAb >>,    p |-> << >>,          raises |-> FALSE],
      [h3 |-> << NameA >>,     p |-> << AddrText >>, raises |-> FALSE],
      [h3 |-> << >>,           p |-> << AddrText >>, raises |-> FALSE],
      [h3 |-> << NameWxyz >>,  p |-> << AddrText >>, raises |-> TRUE] }

\* what one navigation can meet: a rendered page, a failed page.goto, a
\* failed page.evaluate, or an evaluation that gives no list
PageFailures == NavFailures \cup {"eval_error", "not_list"}
PageResponses ==
    { [outcome |-> "ok", dom |-> d] :
        d \in UNION { [1..k -> PageCards] : k \in 0..MaxCards } }
    \cup { [outcome |-> o, dom |-> << >>] : o \in PageFailures }

InitPage ==
    /\ Constructed
    /\ args \in PageResponses
    /\ ret = NoReturn

\* await self.get_dealers(page, brand, city, vehicle_type)
CallGetDealersOnPage ==
    /\ ret.stage = "none"
    /\ LET r == get_dealers(args)
       IN ret' = [stage |-> "get_dealers", value |-> r.dealers, exc |-> r.exc]
    /\ UNCHANGED ScraperVars
    /\ UNCHANGED args

\* await self._extract_dealers_from_page(page, brand, city), which runs on a
\* page that page.goto has loaded
CallExtractDealersFromPage ==
    /\ ret.stage = "none"
    /\ GotoException(args.outcome) = "none"
    /\ LET r == ExtractDealersFromPageCall(args)
       IN ret' = [stage |-> "_extract_dealers_from_page", value |-> r.value,
                  exc |-> r.exc]
    /\ UNCHANGED ScraperVars
    /\ UNCHANGED args

NextPage ==
    \/ CallGetDealersOnPage
    \/ CallExtractDealersFromPage

SpecPage == InitPage /\ [][NextPage]_vars

-----------------------------------------------------------------------------
(* Configuration file: core/config.py and utils/validators.py *)

RequiredKeys == {"vehicle_types", "output_format", "timeout"}
OutputFormats == {"excel", "csv", "json"}

\* a configuration file: its path, what reading it gives ("missing",
\* "unreadable", "malformed", or the JSON "object" it holds), the keys of that
\* object and the values of the keys the validation reads
ConfigObject(keys, output_format, timeout, crawl) ==
    [path |-> "plain", state |-> "object", keys |-> keys,
     output_format |-> output_format, timeout |-> timeout, crawl |-> crawl]
ConfigUnread(path, state) ==
    [path |-> path, state |-> state, keys |-> {}, output_format |-> "",
     timeout |-> 0, crawl |-> << >>]

\* config.get('timeout', 0) and config.get('output_format')
GetTimeout(c) == IF "timeout" \in c.keys THEN c.timeout ELSE 0
GetOutputFormat(c) == IF "output_format" \in c.keys THEN c.output_format ELSE "None"

\* fault variant: the timeout is not validated
ValidateConfig_NoTimeout(c) ==
    LET missing == RequiredKeys \ c.keys IN
    (IF "vehicle_types" \in missing THEN << "Missing required config key" >> ELSE << >>)
    \o (IF "output_format" \in missing THEN << "Missing required config key" >> ELSE << >>)
    \o (IF GetOutputFormat(c) \notin OutputFormats
        THEN << "Invalid output format" >> ELSE << >>)

\* validate_config: the list of errors
ValidateConfig(c) ==
    LET missing == RequiredKeys \ c.keys IN
    (IF "vehicle_types" \in missing THEN << "Missing required config key" >> ELSE << >>)
    \o (IF "output_format" \in missing THEN << "Missing required config key" >> ELSE << >>)
    \o (IF "timeout" \in missing THEN << "Missing required config key" >> ELSE << >>)
    \o (IF GetTimeout(c) <= 0 THEN << "Timeout must be positive" >> ELSE << >>)
    \o (IF GetOutputFormat(c) \notin OutputFormats
        THEN << "Invalid output format" >> ELSE << >>)

\* load_config, lines 23-29: what opening and decoding the file raise
ReadException(file) ==
    CASE file.state = "unreadable" -> "OSError"
      [] file.state = "malformed"  -> "JSONDecodeError"
      [] OTHER                     -> "none"

\* ConfigManager.load_config: the configuration it returns, or the exception
\* it raises
LoadConfig(file) ==
    IF file.path = "traversal"
    THEN [exc |-> "ConfigurationException", config |-> << >>]
    ELSE IF file.state = "missing"
    THEN [exc |-> "ConfigurationException", config |-> << >>]
    ELSE IF ReadException(file) # "none"
    THEN [exc |-> IF IsInstance(ReadException(file), "Exception")
                  THEN "ConfigurationException" ELSE ReadException(file),
          config |-> << >>]
    ELSE IF ValidateConfig(file) # << >>
    THEN [exc |-> "ConfigurationException", config |-> << >>]
    ELSE [exc |-> "none",
          config |-> [vehicle_types |-> file.crawl,
                      validate_data |-> TRUE,
                      output_format |-> file.output_format,
                      timeout |-> file.timeout]]

-----------------------------------------------------------------------------
(* Persistence: storage/data_saver.py and save_data of scraper.py *)

\* DataSaver.save, line 35: the test on custom_filename ("None" when absent)
FilenameRejected(custom_filename) ==
    custom_filename \in {"../out", "a/b", "a\\b"}

\* DataSaver.save: the file it writes and the exception it raises; every
\* exception of its try block leaves as ScraperException
Save(dealers, format_type, custom_filename, written) ==
    IF dealers = << >> THEN [files |-> << >>, exc |-> "none", output_file |-> "None"]
    ELSE LET e == IF custom_filename # "None" /\ FilenameRejected(custom_filename)
                  THEN "ScraperException"
                  ELSE IF format_type \notin OutputFormats THEN "ScraperException"
                  ELSE IF ~written THEN "OSError"
                  ELSE "none"
         IN IF e # "none"
            THEN [files |-> << >>, output_file |-> "None",
                  exc |-> IF IsInstance(e, "Exception") THEN "ScraperException"
                          ELSE e]
            ELSE [files |-> << [kind |-> "dealers", format |-> format_type,
                                rows |-> dealers] >>,
                  output_file |-> "dealers", exc |-> "none"]

\* DataSaver.save_failed_scrapes: no try block around the write
SaveFailedScrapes(failed, written) ==
    IF failed = << >> THEN [files |-> << >>, exc |-> "none"]
    ELSE IF ~written THEN [files |-> << >>, exc |-> "OSError"]
    ELSE [files |-> << [kind |-> "failed_scrapes", format |-> "json",
                        rows |-> failed] >>,
          exc |-> "none"]

\* ZigWheelsProductionScraper.save_data; calls lists the DataSaver methods it
\* has invoked
SaveData(dealers, failed, format_type, custom_filename, written1, written2) ==
    LET s1 == Save(dealers, format_type, custom_filename, written1) IN
    IF s1.exc # "none"
    THEN [files |-> s1.files, output_file |-> s1.output_file, exc |-> s1.exc,
          calls |-> << "save" >>]
    ELSE IF failed = << >>
    THEN \* line 294: if self.failed_scrapes
         [files |-> s1.files, output_file |-> s1.output_file, exc |-> "none",
          calls |-> << "save" >>]
    ELSE LET s2 == SaveFailedScrapes(failed, written2) IN
         [files |-> s1.files \o s2.files,
          output_file |-> s1.output_file,
          exc |-> s2.exc,
          calls |-> << "save", "save_failed_scrapes" >>]

-----------------------------------------------------------------------------
(* The entry point: main.py *)

\* main, lines 23-35: the value main returns; an exception none of its
\* clauses names (a cancellation) leaves main
MainExitCode(e) ==
    IF e = "none" THEN "0"
    ELSE IF IsInstance(e, "ScraperException") THEN "1"
    ELSE IF IsInstance(e, "KeyboardInterrupt") THEN "130"
    ELSE IF IsInstance(e, "Exception") THEN "255"
    ELSE "uncaught"

\* what an interrupt of the process raises inside the running coroutine: the
\* KeyboardInterrupt itself, or the cancellation asyncio.run turns it into
Interrupts == {"KeyboardInterrupt", "CancelledError"}

\* the configuration files main may find at config/scraper_config.json
MainCrawl == VehicleTypes(LocList(<< "Chennai" >>), LocList(<< "Chennai" >>))
ConfigFiles ==
    { ConfigUnread("plain", st) : st \in {"missing", "unreadable", "malformed"} }
    \cup { ConfigObject(k, f, t, MainCrawl) :
             k \in SUBSET RequiredKeys, f \in {"json", "xml"},
             t \in {0 - 1, 0, 15000} }

\* no scraper object exists yet
NoConfig == [vehicle_types |-> << >>, validate_data |-> FALSE,
             output_format |-> "", timeout |-> 0]

InitMain ==
    /\ args \in ConfigFiles
    /\ config = NoConfig
    /\ cacheFile \in InitialCaches
    /\ status = "idle"
    /\ pc = "main"
    /\ session = NoSession
    /\ exc = "none"
    /\ raised = "none"
    /\ vtIdx = 1
    /\ brandIdx = 1
    /\ attempt = 0
    /\ locations = << >>
    /\ cityIdx = 1
    /\ results = << >>
    /\ dealers_data = << >>
    /\ failed_scrapes = << >>
    /\ stats = ZeroStats
    /\ attemptLog = << >>
    /\ navLog = << >>
    /\ brandBase = [records |-> 0, successful |-> 0, invalid |-> 0,
                    failures |-> 0]
    /\ e2e = [clean |-> TRUE, cards |-> 0]
    /\ cityLog = << >>
    /\ ret = NoReturn
    /\ files = << >>
    /\ exitCode = "running"
    /\ delayLog = NoDelay

\* main, lines 12-15: ZigWheelsProductionScraper(config_file=...), whose
\* __init__ loads the configuration (scraper.py:35)
MainConstruct ==
    /\ pc = "main"
    /\ LET r == LoadConfig(args) IN
       IF r.exc # "none"
       THEN /\ ret' = [stage |-> "constructor", exc |-> r.exc]
            /\ exitCode' = MainExitCode(r.exc)
            /\ pc' = "exit"
            /\ config' = config
       ELSE /\ ret' = [stage |-> "constructor", exc |-> "none"]
            /\ config' = r.config
            /\ pc' = "idle"
            /\ exitCode' = exitCode
    /\ UNCHANGED << cacheFile, status, session, exc, raised, vtIdx, brandIdx,
                    attempt, locations, cityIdx, results, dealers_data,
                    failed_scrapes, stats, attemptLog, navLog, brandBase, e2e,
                    cityLog, args, files, delayLog >>

\* an interrupt of the process while scrape_all waits for a page, for the
\* city source or for the delay between two brands: the exception is not an
\* Exception, so it passes get_dealers and the brand handler and reaches the
\* finally block
Interrupt ==
    /\ pc \in {"batch", "discover", "delay"}
    /\ \E e \in Interrupts : exc' = e
    /\ pc' = "finally"
    /\ UNCHANGED << config, cacheFile, status, session, raised, vtIdx, brandIdx,
                    attempt, locations, cityIdx, results, dealers_data,
                    failed_scrapes, stats, attemptLog, navLog, brandBase, e2e,
                    cityLog, args, ret, files, exitCode, delayLog >>

\* main, line 18: scraper.save_data(), reached when scrape_all returned
MainSaveData ==
    /\ pc = "done"
    /\ raised = "none"
    /\ \E written1, written2 \in BOOLEAN :
         LET r == SaveData(dealers_data, failed_scrapes, config.output_format,
                           "None", written1, written2)
         IN /\ files' = files \o r.files
            /\ ret' = [stage |-> "save_data", exc |-> r.exc]
            /\ exitCode' = MainExitCode(r.exc)
    /\ pc' = "exit"
    /\ UNCHANGED << config, cacheFile, status, session, exc, raised, vtIdx,
                    brandIdx, attempt, locations, cityIdx, results,
                    dealers_data, failed_scrapes, stats, attemptLog, navLog,
                    brandBase, e2e, cityLog, args, delayLog >>

\* main, lines 25-35: scrape_all raised, one of the except clauses returns
MainExcept ==
    /\ pc = "done"
    /\ raised # "none"
    /\ exitCode' = MainExitCode(raised)
    /\ pc' = "exit"
    /\ UNCHANGED << config, cacheFile, status, session, exc, raised, vtIdx,
                    brandIdx, attempt, locations, cityIdx, results,
                    dealers_data, failed_scrapes, stats, attemptLog, navLog,
                    brandBase, e2e, cityLog, args, ret, files, delayLog >>

NextMain ==
    \/ MainConstruct
    \/ Next
    \/ Interrupt
    \/ MainSaveData
    \/ MainExcept

\* the program as python main.py runs it
SpecMain == InitMain /\ [][NextMain]_vars

-----------------------------------------------------------------------------
(* Persistence-level runs: the scraper after a crawl is asked to save *)

SampleDealer ==
    DealerData("cars", "bmw", "Chennai",
               [dealer_name |-> NameAbcd, address |-> AddrText,
                phone |-> Empty])
SampleFailure ==
    [vehicle_type |-> "cars", brand |-> "tata", index |-> << 1, 2 >>,
     error |-> "KeyError"]

\* format_type and custom_filename as a caller may pass them
SaveArguments ==
    [format_type : OutputFormats \cup {"xml"},
     custom_filename : {"None", "out", "../out", "a/b"}]

InitSave ==
    /\ args \in SaveArguments
    /\ config \in { [vehicle_types |-> MainCrawl, validate_data |-> TRUE,
                      output_format |-> f, timeout |-> 15000] :
                        f \in OutputFormats }
    /\ dealers_data \in { << >>, << SampleDealer >> }
    /\ failed_scrapes \in { << >>, << SampleFailure >> }
    /\ stats = [ZeroStats EXCEPT !.successful_scrapes = Len(dealers_data)]
    /\ status = "completed"
    /\ cacheFile = CacheAbsent
    /\ pc = "done"
    /\ session = NoSession
    /\ exc = "none"
    /\ raised = "none"
    /\ vtIdx = 1
    /\ brandIdx = 1
    /\ attempt = 0
    /\ locations = << >>
    /\ cityIdx = 1
    /\ results = << >>
    /\ attemptLog = << >>
    /\ navLog = << >>
    /\ brandBase = [records |-> 0, successful |-> 0, invalid |-> 0,
                    failures |-> 0]
    /\ e2e = [clean |-> TRUE, cards |-> 0]
    /\ cityLog = << >>
    /\ ret = NoReturn
    /\ files = << >>
    /\ exitCode = "running"
    /\ delayLog = NoDelay

\* self.data_saver.save(self.dealers_data, format_type, custom_filename)
CallSave ==
    /\ ret.stage = "none"
    /\ \E written \in BOOLEAN :
         LET r == Save(dealers_data, args.format_type, args.custom_filename,
                       written)
         IN /\ files' = files \o r.files
            /\ ret' = [stage |-> "save", exc |-> r.exc,
                       output_file |-> r.output_file]
    /\ UNCHANGED << config, cacheFile, status, pc, session, exc, raised, vtIdx,
                    brandIdx, attempt, locations, cityIdx, results,
                    dealers_data, failed_scrapes, stats, attemptLog, navLog,
                    brandBase, e2e, cityLog, args, exitCode, delayLog >>

\* scraper.save_data(custom_filename)
CallSaveData ==
    /\ ret.stage = "none"
    /\ \E written1, written2 \in BOOLEAN :
         LET r == SaveData(dealers_data, failed_scrapes, config.output_format,
                           args.custom_filename, written1, written2)
         IN /\ files' = files \o r.files
            /\ ret' = [stage |-> "save_data", exc |-> r.exc,
                       output_file |-> r.output_file, calls |-> r.calls]
    /\ UNCHANGED << config, cacheFile, status, pc, session, exc, raised, vtIdx,
                    brandIdx, attempt, locations, cityIdx, results,
                    dealers_data, failed_scrapes, stats, attemptLog, navLog,
                    brandBase, e2e, cityLog, args, exitCode, delayLog >>

NextSave ==
    \/ CallSave
    \/ CallSaveData

SpecSave == InitSave /\ [][NextSave]_vars

-----------------------------------------------------------------------------
(* Vocabulary of the properties *)

RECURSIVE BrandIndices(_)
\* the configured brand entries from vehicle type i on, in declaration order
BrandIndices(i) ==
    IF i > NumTypes THEN << >>
    ELSE [b \in 1..Len(BrandsOf(i)) |-> << i, b >>] \o BrandIndices(i + 1)

ConfiguredBrands == BrandIndices(1)

\* executions of the _scrape_brand body for one brand entry
AttemptsOf(idx) ==
    Cardinality({ i \in DOMAIN attemptLog :
                    attemptLog[i].index = idx /\ attemptLog[i].entered })

RECURSIVE Collapse(_)
\* a sequence with runs of equal neighbours reduced to one element
Collapse(q) ==
    IF Len(q) <= 1 THEN q
    ELSE IF q[1] = q[2] THEN Collapse(Tail(q))
    ELSE << q[1] >> \o Collapse(Tail(q))

\* the brand entries attempted so far, in the order of their first attempt
AttemptedBrands == Collapse([i \in DOMAIN attemptLog |-> attemptLog[i].index])

IsPrefix(p, q) == Len(p) <= Len(q) /\ SubSeq(q, 1, Len(p)) = p

\* the brand loops are over and control is in, or past, the finally block
AfterCrawl == pc \in {"finally", "browser_close", "handler", "done"}

\* the brand that navLog and brandBase describe has been handled completely
LastBrandFinished ==
    pc \in {"brands", "types", "finally", "browser_close", "handler", "done"}

FailedNavs == { i \in DOMAIN navLog : navLog[i].outcome \in NavFailures }

RECURSIVE SumFound(_)
SumFound(log) ==
    IF log = << >> THEN 0 ELSE Head(log).found + SumFound(Tail(log))

\* FailureRecords appended since the current brand began
NewFailures == Len(failed_scrapes) - brandBase.failures
NewRecords == Len(dealers_data) - brandBase.records

\* a transport / timeout failure, as the retry policy names it
TransportFailure(e) == e \in {"NetworkException", "PlaywrightTimeout"}

\* a typed failure of the scraper
TypedFailure(e) == e \in {"ScraperException", "NetworkException"}

-----------------------------------------------------------------------------
(* C1 *)

\* C1: a brand failure never aborts the run.  Once the page exists, brands are
\* attempted in declaration order whatever each one does (normal return, early
\* return, exception), control reaches the end of the crawl only after every
\* configured brand was attempted, the status is then COMPLETED, and it is
\* COMPLETED when scrape_all returns.
C1_BrandFailureNeverAborts ==
    /\ IsPrefix(AttemptedBrands, ConfiguredBrands)
    /\ (session.page /\ AfterCrawl) => AttemptedBrands = ConfiguredBrands
    /\ (session.page /\ AfterCrawl /\ pc # "done") => status = "completed"
    /\ (session.page /\ pc = "done" /\ raised = "none") => status = "completed"

\* a run whose first brand raised and was logged, whose later brands were still
\* attempted and gave records, and which returned with status COMPLETED
C1_Witness ==
    /\ pc = "done"
    /\ raised = "none"
    /\ status = "completed"
    /\ failed_scrapes # << >>
    /\ failed_scrapes[1].index = << 1, 1 >>
    /\ AttemptedBrands = ConfiguredBrands
    /\ dealers_data # << >>

-----------------------------------------------------------------------------
(* C2 *)

\* C2 (as claimed): a brand whose every page navigation failed with a network
\* or timeout error has exactly one FailureRecord appended for it when the run
\* moves on.
C2_OneFailureRecordWhenAllNavigationsFail ==
    (LastBrandFinished /\ navLog # << >> /\ FailedNavs = DOMAIN navLog)
        => NewFailures = 1

-----------------------------------------------------------------------------
(* C3 *)

\* C3: no brand entry has its brand-level scrape executed more than 3 times in
\* a run.
C3_AtMostThreeAttempts ==
    \A i \in DOMAIN attemptLog : AttemptsOf(attemptLog[i].index) <= 3

\* the wrapper has returned from a brand whose body ran once, after a page
\* navigation of that brand had failed
C3_Witness ==
    /\ pc = "brand_end"
    /\ exc = "none"
    /\ FailedNavs # {}
    /\ AttemptsOf(<< vtIdx, brandIdx >>) = 1

-----------------------------------------------------------------------------
(* C4 *)

\* C4: an attempt is followed by another attempt of the same brand only if it
\* raised a transport / timeout failure; an attempt that raised anything else
\* leaves the wrapper after a single attempt and the brand then gets exactly
\* one FailureRecord.
C4_RetryOnlyOnTransportFailure ==
    [][ /\ (pc = "attempt_end" /\ pc' = "attempt") => TransportFailure(exc)
        /\ (pc = "attempt_end" /\ exc # "none" /\ ~TransportFailure(exc))
              => (pc' = "brand_end" /\ exc' = exc /\ attempt' = 1
                  /\ AttemptsOf(<< vtIdx, brandIdx >>) = 1)
        /\ (pc = "brand_end" /\ exc # "none" /\ ~TransportFailure(exc)
              /\ exc # "RetryError")
              => (/\ Len(failed_scrapes') = brandBase.failures + 1
                  /\ failed_scrapes'[Len(failed_scrapes')].index
                        = << vtIdx, brandIdx >>
                  /\ pc' = "brands")
      ]_vars

\* a brand whose attempt returned normally was not attempted again, after an
\* earlier brand had raised a non-transport exception and got its one
\* FailureRecord
C4_Witness ==
    /\ pc = "brands"
    /\ attemptLog # << >>
    /\ attemptLog[Len(attemptLog)].entered
    /\ AttemptsOf(attemptLog[Len(attemptLog)].index) = 1
    /\ NewFailures = 0
    /\ Len(failed_scrapes) = 2
    /\ failed_scrapes[2].error = "KeyError"

-----------------------------------------------------------------------------
(* C5 *)

\* C5 (as claimed): the status moves only Idle -> Running, Running ->
\* Completed and Running -> Failed; a terminal status never changes, IDLE is
\* never re-entered and PAUSED is never reached.
C5_StatusTransitions ==
    [][ /\ status' # "paused"
        /\ status' # status =>
              \/ (status = "idle" /\ status' = "running")
              \/ (status = "running" /\ status' \in {"completed", "failed"})
      ]_vars

-----------------------------------------------------------------------------
(* C6 *)

\* C6: when the session set-up fails (no page was created), scrape_all ends
\* with status FAILED, no brand attempted, no record accumulated, and raises
\* ScraperException or a subclass of it.
C6_SetupFailure ==
    (pc = "done" /\ ~session.page)
        => /\ status = "failed"
           /\ attemptLog = << >>
           /\ dealers_data = << >>
           /\ TypedFailure(raised)

\* context creation failed after a successful launch
C6_Witness ==
    /\ pc = "done"
    /\ session.browser = "open"
    /\ session.context = "unbound"
    /\ status = "failed"
    /\ raised = "ScraperException"

-----------------------------------------------------------------------------
(* C7 *)

\* C7: a failed city fetch is swallowed inside the batch.  With a failed
\* navigation among the brand's fetches: the cities are fetched in list order
\* to the end, the brand is not retried, no exception leaves the batch, no
\* FailureRecord is appended for the brand, and every dealer found in the
\* other cities is accounted for in the accumulator (or counted invalid).
C7_CityFailureSwallowed ==
    FailedNavs # {} =>
        /\ attempt = 1
        /\ ~AfterCrawl => exc = "none"
        /\ IsPrefix([i \in DOMAIN navLog |-> navLog[i].city], locations)
        /\ pc # "batch" => [i \in DOMAIN navLog |-> navLog[i].city] = locations
        /\ NewFailures = 0
        /\ (pc # "batch" /\ pc # "process") =>
              NewRecords + (stats.invalid_data - brandBase.invalid)
                 = SumFound(navLog)

\* the first city of a brand failed, the second was fetched and its dealers
\* reached the accumulator
C7_Witness ==
    /\ pc = "brands"
    /\ Len(navLog) = 2
    /\ navLog[1].outcome \in NavFailures
    /\ navLog[2].outcome = "ok"
    /\ navLog[2].found > 0
    /\ NewRecords = navLog[2].found

-----------------------------------------------------------------------------
(* C8 *)

\* C8 (as claimed): every failed city fetch is counted in failed_scrapes.
C8_FailedFetchesCounted ==
    stats.failed_scrapes >= Cardinality(FailedNavs)

-----------------------------------------------------------------------------
(* C9 *)

\* C9 (as claimed): a navigation timeout in a brand's batch makes the
\* brand-level scrape run again.
C9_TimeoutRetriesBrand ==
    (LastBrandFinished /\ \E i \in DOMAIN navLog : navLog[i].outcome = "timeout")
        => AttemptsOf(navLog[1].index) >= 2

-----------------------------------------------------------------------------
(* C10 *)

DistinctCities(l) == \A i, j \in DOMAIN l : i # j => l[i] # l[j]

\* C10: end-to-end count.  For a brand with an explicit list of distinct
\* cities whose pages all loaded and rendered only distinct valid cards, the
\* batch appends exactly as many records as cards were rendered,
\* successful_scrapes grows by the same number, and failed_scrapes is 0.
C10_EndToEndCount ==
    ( /\ pc \in {"attempt_end", "brand_end"}
      /\ BrandLocations(CurBrand).tag = "list"
      /\ DistinctCities(BrandLocations(CurBrand).cities)
      /\ Len(navLog) = Len(BrandLocations(CurBrand).cities)
      /\ e2e.clean )
        => /\ NewRecords = e2e.cards
           /\ stats.successful_scrapes - brandBase.successful = e2e.cards
           /\ stats.failed_scrapes = 0
           /\ (brandBase.records = 0 /\ brandBase.successful = 0) =>
                 (Len(dealers_data) = e2e.cards
                  /\ stats.successful_scrapes = e2e.cards)

\* two cities, one rendering 2 cards and the other 1 or 2
C10_Witness ==
    /\ pc = "attempt_end"
    /\ BrandLocations(CurBrand).tag = "list"
    /\ Len(navLog) = 2
    /\ e2e.clean
    /\ e2e.cards >= 3
    /\ Len(dealers_data) = e2e.cards

-----------------------------------------------------------------------------
(* Vocabulary of the aggregation properties *)

\* the batch of the current brand has been handed back (results is its dict)
BatchDone == pc \in {"attempt_end", "brand_end"}

\* the candidates the batch returned, in the order the dict yields them
Candidates == Flatten(results)

\* the record a candidate of the current brand is turned into
CandidateRecord(c) ==
    DealerData(CurType.name, BrandName(CurBrand), c.city, c.dealer)

CandidateRecords ==
    [i \in DOMAIN Candidates |-> CandidateRecord(Candidates[i])]

\* the records appended since the current brand began
NewRecordSeq == SubSeq(dealers_data, brandBase.records + 1, Len(dealers_data))

Invalid(d) == ~is_valid(d)

NewInvalid == stats.invalid_data - brandBase.invalid

-----------------------------------------------------------------------------
(* C11 *)

\* C11: after a brand batch, the valid records among those appended for the
\* brand are exactly the valid candidates of the batch, each once and in
\* order; successful_scrapes has grown by the number of records appended; and
\* successful_scrapes equals the number of records in the accumulator.
C11_ValidAppendedOnceAndCounted ==
    /\ stats.successful_scrapes = Len(dealers_data)
    /\ BatchDone =>
          /\ SelectSeq(NewRecordSeq, is_valid)
                = SelectSeq(CandidateRecords, is_valid)
          /\ stats.successful_scrapes - brandBase.successful = NewRecords

\* a later brand's batch appended two records after an earlier brand had
\* appended some, with an invalid candidate dropped on the way
C11_Witness ==
    /\ BatchDone
    /\ brandBase.records >= 1
    /\ NewRecords >= 2
    /\ stats.invalid_data >= 1
    /\ stats.successful_scrapes = Len(dealers_data)

-----------------------------------------------------------------------------
(* C12 *)

\* C12 (as claimed): after a batch, invalid_data has grown by exactly the
\* number of candidates of the batch that fail validation, whether the
\* validate_data flag is set or not.
C12_InvalidCountedEitherWay ==
    BatchDone => NewInvalid = Len(SelectSeq(CandidateRecords, Invalid))

-----------------------------------------------------------------------------
(* C13 *)

\* C13: no candidate is lost.  After a batch, the number of candidates the
\* batch returned equals the number of records appended for the brand plus the
\* growth of invalid_data.
C13_NoCandidateLost ==
    BatchDone => Len(Candidates) = NewRecords + NewInvalid

\* one batch with a candidate that was appended and one that was dropped and
\* counted
C13_Witness ==
    /\ BatchDone
    /\ Len(Candidates) >= 2
    /\ NewRecords >= 1
    /\ NewInvalid >= 1

-----------------------------------------------------------------------------
(* C14 *)

\* one of address, city, location of a record is non-empty
HasPlace(d) == d.address # Empty \/ d.city # Empty \/ d.location # ""

\* C14: is_valid returns valid exactly when the cleaned dealer_name is
\* non-empty with length >= 2 and at least one of address, city, location is
\* non-empty; its list of reasons is empty exactly when the record is valid.
C14_ValidIffNameAndPlace ==
    ret.stage = "validated" =>
        /\ ret.valid <=> ( /\ ret.dealer.dealer_name # Empty
                           /\ Len(ret.dealer.dealer_name) >= 2
                           /\ HasPlace(ret.dealer) )
        /\ (ret.errors = << >>) <=> ret.valid

\* a record made valid by its city alone, with a two-character name
C14_Witness ==
    /\ ret.stage = "validated"
    /\ ret.valid
    /\ Len(ret.dealer.dealer_name) = 2
    /\ ret.dealer.address = Empty
    /\ ret.dealer.location = ""
    /\ ret.dealer.city # Empty

-----------------------------------------------------------------------------
(* C15 *)

\* C15 (as claimed): a non-empty dealer_name together with a non-empty address
\* always passes validation, and an empty dealer_name always fails.
C15_NameAndAddressPass ==
    ret.stage = "validated" =>
        /\ (ret.dealer.dealer_name # Empty /\ ret.dealer.address # Empty)
              => ret.valid
        /\ ret.dealer.dealer_name = Empty => ~ret.valid

\* C15 (amended): a dealer_name of at least 2 characters together with a
\* non-empty address always passes validation, and an empty dealer_name always
\* fails whatever the other fields are.
C15_LongNameAndAddressPass ==
    ret.stage = "validated" =>
        /\ (Len(ret.dealer.dealer_name) >= 2 /\ ret.dealer.address # Empty)
              => ret.valid
        /\ ret.dealer.dealer_name = Empty => ~ret.valid

\* a record that passes on its name and address alone
C15_Witness ==
    /\ ret.stage = "validated"
    /\ ret.valid
    /\ Len(ret.dealer.dealer_name) >= 2
    /\ ret.dealer.address # Empty
    /\ ret.dealer.city = Empty
    /\ ret.dealer.location = ""

-----------------------------------------------------------------------------
(* C16 *)

\* position of a record's brand entry in the configured order of vehicle types
\* and brands
EntryPos(r) ==
    CHOOSE k \in DOMAIN ConfiguredBrands :
        LET idx == ConfiguredBrands[k] IN
        /\ config.vehicle_types[idx[1]].name = r.vehicle_type
        /\ BrandName(BrandsOf(idx[1])[idx[2]]) = r.brand

\* position of a record's city in the city list of the current brand
CityPos(r) ==
    CHOOSE k \in DOMAIN locations :
        /\ locations[k] = r.location
        /\ \A m \in 1..(k - 1) : locations[m] # r.location

\* position of a record among the candidates its city's page gave
PagePos(r) ==
    LET e == CHOOSE x \in DOMAIN results : results[x].city = r.location IN
    CHOOSE k \in DOMAIN results[e].dealers :
        CandidateRecord([city |-> r.location, dealer |-> results[e].dealers[k]]) = r

\* C16: the accumulator is ordered by iteration position.  Of any two records
\* the earlier one belongs to the same or an earlier brand entry in the
\* configured vehicle-type and brand order; the records a brand appended are
\* its own, ordered by the position of their city in the brand's city list,
\* and within one city by their position on the page.  (Both orders are
\* transitive, so they are stated for neighbours; the accumulator changes
\* only in the batch step, so it is looked at when a brand body has ended and
\* when the run is over.)
C16_AccumulationOrder ==
    /\ pc \in {"attempt_end", "done"} =>
          \A i \in 1..(Len(dealers_data) - 1) :
              EntryPos(dealers_data[i]) <= EntryPos(dealers_data[i + 1])
    /\ pc = "attempt_end" =>
          /\ \A i \in DOMAIN NewRecordSeq :
                /\ ConfiguredBrands[EntryPos(NewRecordSeq[i])] = << vtIdx, brandIdx >>
                /\ \E k \in DOMAIN locations : locations[k] = NewRecordSeq[i].location
          /\ \A i \in 1..(Len(NewRecordSeq) - 1) :
                \/ CityPos(NewRecordSeq[i]) < CityPos(NewRecordSeq[i + 1])
                \/ /\ CityPos(NewRecordSeq[i]) = CityPos(NewRecordSeq[i + 1])
                   /\ PagePos(NewRecordSeq[i]) < PagePos(NewRecordSeq[i + 1])

\* bmw gave two records for Hyderabad, then one for Chennai (the order of its
\* city list, not the sorted one), and a later brand of the next vehicle type
\* has appended after them
C16_Witness ==
    /\ BatchDone
    /\ vtIdx = 2
    /\ NewRecords >= 1
    /\ Len(dealers_data) >= 4
    /\ dealers_data[1].brand = "bmw"
    /\ dealers_data[1].location = "Hyderabad"
    /\ dealers_data[2].location = "Hyderabad"
    /\ dealers_data[3].location = "Chennai"
    /\ dealers_data[Len(dealers_data)].vehicle_type = "bikes"

-----------------------------------------------------------------------------
(* C17 *)

\* the crawl target of a navigation
Target(n) == << n.vehicle_type, n.brand, n.city >>

\* C17 (as claimed): no two page navigations of a run are for the same
\* (vehicle_type, brand, city) target.  (Brand entries are distinct and each
\* is attempted once, so two navigations of one target are two navigations of
\* the current brand.)
C17_TargetNavigatedOnce ==
    \A i, j \in DOMAIN navLog : i # j => Target(navLog[i]) # Target(navLog[j])

-----------------------------------------------------------------------------
(* Vocabulary of the city-list properties *)

\* the _scrape_brand body of the current brand is past its city-list decision
ListResolved ==
    /\ pc \in {"batch", "process", "attempt_end", "brand_end"}
    /\ attemptLog[Len(attemptLog)].entered

\* what the configuration says for the current brand
ConfiguredTag ==
    IF CurBrand.format = "dict" THEN CurBrand.locations.tag ELSE "none"

NavCities == [i \in DOMAIN navLog |-> navLog[i].city]

CatalogCalls == [i \in DOMAIN cityLog |-> cityLog[i].call]

CacheLoaded ==
    \E i \in DOMAIN cityLog : cityLog[i].call = "load_cities_from_file"
SourceFetched ==
    \E i \in DOMAIN cityLog : cityLog[i].call = "discover_all_cities"

-----------------------------------------------------------------------------
(* C18 *)

\* C18: for a brand configured with an explicit list, the cities navigated
\* are that list, in its order (all of it once the batch is over), the cities
\* file is not read and the external city source is not fetched.
C18_ExplicitListVerbatim ==
    /\ (ListResolved /\ ConfiguredTag = "list") =>
          /\ ~CacheLoaded
          /\ ~SourceFetched
          /\ locations = CurBrand.locations.cities
          /\ IsPrefix(NavCities, CurBrand.locations.cities)
          /\ pc # "batch" => NavCities = CurBrand.locations.cities
    /\ pc = "discover" => ConfiguredTag # "list"

\* bmw's two listed cities were navigated in list order while no cities file
\* existed, and none was looked for or fetched
C18_Witness ==
    /\ pc = "attempt_end"
    /\ ConfiguredTag = "list"
    /\ NavCities = << "Hyderabad", "Chennai" >>
    /\ cacheFile = CacheAbsent
    /\ cityLog = << >>

-----------------------------------------------------------------------------
(* C19 *)

\* a non-empty cached catalog / no usable cached catalog
CatalogPresent(cf) == cf.kind = "list" /\ cf.cities # << >>
CatalogMissing(cf) == cf.kind # "list" \/ cf.cities = << >>

\* C19: for a brand configured with "all", the cities file is read first; the
\* external source is fetched only after that read, once, and only when the
\* file is absent or holds no city; and when the file holds a non-empty list
\* no fetch happens and the cities navigated are that list, in its order.
\* (The file is written only by a fetch, so without a fetch it still holds
\* what was read.)
C19_CacheBeforeSource ==
    /\ (pc = "discover" /\ ConfiguredTag = "all") =>
          /\ CatalogCalls = << "load_cities_from_file" >>
          /\ CatalogMissing(cacheFile)
    /\ (ListResolved /\ ConfiguredTag = "all") =>
          /\ cityLog # << >>
          /\ CatalogCalls[1] = "load_cities_from_file"
          /\ SourceFetched =>
                CatalogCalls = << "load_cities_from_file", "discover_all_cities" >>
          /\ ~SourceFetched => ~CatalogMissing(cacheFile)
          /\ (~SourceFetched /\ CatalogPresent(cacheFile)) =>
                /\ locations = cacheFile.cities
                /\ IsPrefix(NavCities, cacheFile.cities)
                /\ pc # "batch" => NavCities = cacheFile.cities

\* the cached list was crawled and gave records, without a fetch of the source
C19_Witness ==
    /\ pc = "attempt_end"
    /\ ConfiguredTag = "all"
    /\ cacheFile = CacheList(<< "Hyderabad" >>)
    /\ CatalogCalls = << "load_cities_from_file" >>
    /\ NavCities = << "Hyderabad" >>
    /\ NewRecords >= 1

-----------------------------------------------------------------------------
(* C20 *)

\* the brand entry whose _scrape_brand body ran last
LastIndex == attemptLog[Len(attemptLog)].index
LastEntry == BrandsOf(LastIndex[1])[LastIndex[2]]

\* the latest brand body was for an "all" brand, and both the read of the
\* cities file and the fetch of the source gave no city
BothEmpty ==
    /\ attemptLog # << >>
    /\ LastEntry.format = "dict"
    /\ LastEntry.locations.tag = "all"
    /\ cityLog = << [call |-> "load_cities_from_file", empty |-> TRUE],
                    [call |-> "discover_all_cities", empty |-> TRUE] >>

\* C20: when an "all" brand gets no city from the cities file and none from
\* the source, its crawl is skipped: no page is navigated, no record of the
\* brand is in the accumulator, the brand body returns without an exception
\* and without a FailureRecord, and the brand loop goes on to the next entry.
C20_NoCitiesSkipsBrand ==
    BothEmpty =>
        /\ navLog = << >>
        /\ locations = << >>
        /\ \A i \in DOMAIN dealers_data :
              ~( /\ dealers_data[i].vehicle_type
                      = config.vehicle_types[LastIndex[1]].name
                 /\ dealers_data[i].brand = BrandName(LastEntry) )
        /\ \A i \in DOMAIN failed_scrapes : failed_scrapes[i].index # LastIndex
        /\ pc \in {"attempt_end", "brand_end", "brands", "delay", "attempt",
                    "types", "finally", "browser_close", "handler", "done"}
        /\ pc \in {"attempt_end", "brand_end"} =>
              (exc = "none" /\ attempt = 1 /\ status = "running")
        /\ pc \in {"delay", "attempt"} =>
              /\ << vtIdx, brandIdx >> # LastIndex
              /\ IsPrefix(AttemptedBrands \o << << vtIdx, brandIdx >> >>,
                          ConfiguredBrands)
        /\ AfterCrawl => AttemptedBrands = ConfiguredBrands

\* bmw was skipped for want of cities and the next brand is about to be
\* scraped
C20_Witness ==
    /\ BothEmpty
    /\ LastIndex = << 1, 1 >>
    /\ pc = "attempt"
    /\ << vtIdx, brandIdx >> = << 1, 2 >>
    /\ dealers_data = << >>
    /\ failed_scrapes = << >>

-----------------------------------------------------------------------------
(* Vocabulary of the catalog properties *)

\* the response is one of the failure modes of the fetch: no connection, a
\* status that is not 200, a body that is not JSON, JSON that is not a list,
\* or a list with an element that is not an object
FetchFailureMode(response) ==
    \/ response.kind # "list"
    \/ \E i \in DOMAIN response.items : ~response.items[i].object

\* the cities file is missing or cannot be read as a catalog
CacheUnusable(cache) == cache.kind \in {"absent", "unreadable", "malformed"}

\* str.lower() of a city name of the model
LowerName(c) ==
    CASE c = "Chennai" -> "chennai"
      [] c = "Hyderabad" -> "hyderabad"
      [] OTHER -> c

-----------------------------------------------------------------------------
(* C21 *)

\* C21: city discovery never raises.  discover_all_cities returns normally,
\* and with the empty list for every failure mode of the fetch;
\* load_cities_from_file returns normally, and with the empty list when the
\* cities file is missing or unreadable.
C21_DiscoveryNeverRaises ==
    /\ ret.stage = "discover_all_cities" =>
          /\ ret.exc = "none"
          /\ FetchFailureMode(args.response) => ret.value = << >>
    /\ ret.stage = "load_cities_from_file" =>
          /\ ret.exc = "none"
          /\ CacheUnusable(args.cache) => ret.value = << >>

\* the source answered a list whose second element is not an object, and
\* discover_all_cities returned the empty list
C21_Witness ==
    /\ ret.stage = "discover_all_cities"
    /\ args.response = CatalogArray(<< CityObject("Chennai"), NonObject >>)
    /\ ret.value = << >>
    /\ ret.exc = "none"

-----------------------------------------------------------------------------
(* C22 *)

\* C22 (as claimed): a city list that the catalog hands to a brand never holds
\* two entries that are equal after lower-casing.
C22_NoCaseInsensitiveDuplicates ==
    ret.stage \in {"discover_all_cities", "load_cities_from_file"} =>
        \A i, j \in DOMAIN ret.value :
            i # j => LowerName(ret.value[i]) # LowerName(ret.value[j])

-----------------------------------------------------------------------------
(* C23 *)

\* C23: when the source answers a list of objects, discover_all_cities returns
\* exactly the non-empty "value" fields of that list, each of them once, in
\* ascending order.
C23_SortedSetOfNames ==
    (ret.stage = "discover_all_cities" /\ ~FetchFailureMode(args.response)) =>
        LET items == args.response.items IN
        /\ { ret.value[i] : i \in DOMAIN ret.value }
              = { items[i].value : i \in DOMAIN items } \ {""}
        /\ \A i, j \in DOMAIN ret.value :
              i < j => CityRank(ret.value[i]) < CityRank(ret.value[j])

\* a name listed twice, after a name that sorts later, comes back once and in
\* order
C23_Witness ==
    /\ ret.stage = "discover_all_cities"
    /\ args.response = CatalogArray(<< CityObject("Hyderabad"),
                                       CityObject("Chennai"),
                                       CityObject("Chennai") >>)
    /\ ret.value = << "Chennai", "Hyderabad" >>

-----------------------------------------------------------------------------
(* C24 *)

\* C24 (as claimed): when the process is interrupted while a brand is being
\* crawled, the records accumulated until then are persisted: after main has
\* ended, a dealers file holding exactly dealers_data has been written.
C24_InterruptedRunPersists ==
    (pc = "exit" /\ raised \in Interrupts /\ dealers_data # << >>) =>
        \E i \in DOMAIN files :
            files[i].kind = "dealers" /\ files[i].rows = dealers_data

-----------------------------------------------------------------------------
(* C25 *)

\* C25 (as claimed): when the run driven by main ends with status FAILED after
\* records were accumulated, main still calls the persist step with them.
C25_FailedRunPersists ==
    (pc = "exit" /\ status = "failed" /\ dealers_data # << >>) =>
        ret.stage = "save_data"

-----------------------------------------------------------------------------
(* C26 *)

\* C26 (as claimed): a save that fails raises ScraperException and leaves the
\* accumulator, the failure log, the stats and the status as they were.
C26_SaveFailureIsTypedAndFramed ==
    [][ (ret.stage = "none" /\ ret'.stage \in {"save", "save_data"}
           /\ ret'.exc # "none")
        => (/\ ret'.exc = "ScraperException"
            /\ UNCHANGED << dealers_data, failed_scrapes, stats, status >>)
      ]_vars

-----------------------------------------------------------------------------
(* C27 *)

\* the configuration file fails in one of the ways the claim lists: it is
\* missing, it is not JSON, a required key is missing, the timeout is not
\* positive, or the output format is not one of excel / csv / json
ConfigFailure(file) ==
    \/ file.state \in {"missing", "malformed"}
    \/ /\ file.state = "object"
       /\ \/ \E k \in {"vehicle_types", "output_format", "timeout"} :
                k \notin file.keys
          \/ file.timeout <= 0
          \/ file.output_format \notin {"excel", "csv", "json"}

\* C27: with such a file the constructor raises ConfigurationException, and
\* the run never launches a browser, navigates or becomes RUNNING.
C27_ConfigFailureStopsConstruction ==
    ConfigFailure(args) =>
        /\ pc \in {"main", "exit"}
        /\ status = "idle"
        /\ session = NoSession
        /\ navLog = << >>
        /\ attemptLog = << >>
        /\ pc = "exit" =>
              ret = [stage |-> "constructor", exc |-> "ConfigurationException"]

\* a file with every key and a timeout of 0 made the constructor raise
C27_Witness ==
    /\ pc = "exit"
    /\ args = ConfigObject(RequiredKeys, "json", 0, MainCrawl)
    /\ ret = [stage |-> "constructor", exc |-> "ConfigurationException"]
    /\ status = "idle"

-----------------------------------------------------------------------------
(* C28 *)

\* C28 (as claimed): the address navigated to starts with the base_url of the
\* vehicle type, so two vehicle types whose base URLs differ never navigate
\* to the same address for the same brand and city.
C28_UrlFollowsBaseUrl ==
    \A i, j \in DOMAIN Navigated :
        Navigated[i].base_url # Navigated[j].base_url
            => Navigated[i].url # Navigated[j].url

-----------------------------------------------------------------------------
(* C29 *)

PhoneCharacters == {"0", "1", "2", "3", "4", "5", "6", "7", "8", "9", "+", "-"}

\* C29 (as claimed): the phone of every accumulated record holds only digits,
\* '+' and '-', and its dealer_name is a single line.
C29_PhoneAndNameNormalised ==
    \A i \in DOMAIN dealers_data :
        /\ \A k \in DOMAIN dealers_data[i].phone :
              dealers_data[i].phone[k] \in PhoneCharacters
        /\ \A k \in DOMAIN dealers_data[i].dealer_name :
              dealers_data[i].dealer_name[k] # "\n"

-----------------------------------------------------------------------------
(* C30 *)

\* the text fields of the model that _clean_fields names
CleanedFields(d) == { d.dealer_name, d.address, d.phone, d.city }

\* C30 (as claimed): after a DealerData was constructed none of its cleaned
\* text fields is "N/A", "NA" or "n/a", and cleaning it again changes nothing.
C30_NoSentinelAndIdempotent ==
    ret.stage = "dealer" =>
        \A v \in CleanedFields(ret.dealer) :
            v \notin Sentinels /\ CleanField(v) = v

-----------------------------------------------------------------------------
(* C31 .. C33: extraction from one page *)

\* the lower-cased, trimmed name of a text
NormalizedName(text) == Strip(Lower(Strip(text)))

\* the card can be read and shows a heading
Readable(card) == ~card.raises /\ card.h3 # << >>

\* the page was rendered and a call has returned its candidates
PageExtracted == ret.stage # "none" /\ args.outcome = "ok"

\* the normalized names of the readable cards whose name is long enough
LongNames(dom) ==
    { NormalizedName(dom[k].h3[1]) :
        k \in { m \in DOMAIN dom : Readable(dom[m])
                                  /\ Len(Strip(dom[m].h3[1])) > 3 } }

\* C31: within one page no two returned candidates have the same lower-cased,
\* trimmed name, each candidate is built from the first card of the page that
\* has its normalized name, and one candidate is returned per such name (two
\* spellings of one name yield exactly one candidate).
C31_FirstOccurrencePerName ==
    PageExtracted =>
        /\ \A i, j \in DOMAIN ret.value :
              i # j => NormalizedName(ret.value[i].dealer_name)
                         # NormalizedName(ret.value[j].dealer_name)
        /\ \A i \in DOMAIN ret.value :
              \E k \in DOMAIN args.dom :
                /\ Readable(args.dom[k])
                /\ ret.value[i].dealer_name = Strip(args.dom[k].h3[1])
                /\ ret.value[i].address =
                      (IF args.dom[k].p = << >> THEN Empty
                       ELSE Strip(args.dom[k].p[1]))
                /\ \A m \in 1..(k - 1) :
                      Readable(args.dom[m]) =>
                          NormalizedName(args.dom[m].h3[1])
                            # NormalizedName(args.dom[k].h3[1])
        /\ Len(ret.value) = Cardinality(LongNames(args.dom))

\* two cards spell one name differently and one candidate came back: the first
C31_Witness ==
    /\ ret.stage = "get_dealers"
    /\ args.outcome = "ok"
    /\ Len(args.dom) = 2
    /\ args.dom[1].h3 = << NameUpper >>
    /\ args.dom[2].h3 = << NameLower >>
    /\ Len(ret.value) = 1
    /\ ret.value[1].dealer_name = NameUpper

\* C32: no returned candidate has a trimmed name of 3 characters or fewer, and
\* a page whose only card has such a name (or no heading) yields nothing.
C32_ShortNamesExcluded ==
    PageExtracted =>
        /\ \A i \in DOMAIN ret.value :
              Len(Strip(ret.value[i].dealer_name)) > 3
        /\ ( /\ Len(args.dom) = 1
             /\ ~args.dom[1].raises
             /\ (args.dom[1].h3 = << >> \/ Len(Strip(args.dom[1].h3[1])) <= 3) )
           => ret.value = << >>

\* the only card of the page has a unique name of 3 characters; nothing returned
C32_Witness ==
    /\ ret.stage = "get_dealers"
    /\ args.outcome = "ok"
    /\ Len(args.dom) = 1
    /\ args.dom[1].h3 = << NameAbc >>
    /\ ret.value = << >>

\* C33: get_dealers never raises; it returns an empty list when navigation or
\* the evaluation fails or the evaluation gives no list; a card that throws is
\* skipped and every other card with a long enough name is still represented
\* in the result.
C33_ExtractionNeverRaises ==
    ret.stage = "get_dealers" =>
        /\ ret.exc = "none"
        /\ args.outcome \in PageFailures => ret.value = << >>
        /\ args.outcome = "ok" =>
              \A k \in DOMAIN args.dom :
                (Readable(args.dom[k]) /\ Len(Strip(args.dom[k].h3[1])) > 3)
                  => \E i \in DOMAIN ret.value :
                        NormalizedName(ret.value[i].dealer_name)
                          = NormalizedName(args.dom[k].h3[1])

\* a card that throws stands before a good card, and the good card came back
C33_Witness ==
    /\ ret.stage = "get_dealers"
    /\ args.outcome = "ok"
    /\ Len(args.dom) = 2
    /\ args.dom[1].raises
    /\ Readable(args.dom[2])
    /\ Len(ret.value) = 1
    /\ ret.exc = "none"

-----------------------------------------------------------------------------
(* C34: the delay between two brands *)

\* _scrape_vehicle_type is inside its loop body, after the delay of the brand
InsideBrand ==
    pc \in {"attempt", "discover", "batch", "process", "attempt_end", "brand_end"}

\* the loop over the brands of the current vehicle type has ended
TypeFinished == pc = "brands" /\ brandIdx > Len(BrandsOf(vtIdx))

\* C34: within a vehicle type a delay between 3 and 8 is slept before every
\* brand except the first. The k-th brand runs after k-1 delays, a type with n
\* brands ends after n-1 delays, and each delay is slept when the previous
\* brand has finished (its call is the last one logged, its failure is in the
\* log) and before the next brand navigates.
C34_DelayBetweenBrands ==
    /\ InsideBrand => delayLog.count = brandIdx - 1
    /\ pc = "delay" =>
          /\ brandIdx > 1
          /\ delayLog.count = brandIdx - 2
          /\ navLog = << >>
          /\ attemptLog # << >>
          /\ attemptLog[Len(attemptLog)].index = << vtIdx, brandIdx - 1 >>
          /\ Len(failed_scrapes) = brandBase.failures
    /\ (pc = "attempt" /\ attempt = 1) =>
          /\ navLog = << >>
          /\ brandIdx = 1 => delayLog.last = 0
          /\ brandIdx > 1 => delayLog.last \in 3..8
    /\ (TypeFinished /\ Len(BrandsOf(vtIdx)) >= 1) =>
          delayLog.count = Len(BrandsOf(vtIdx)) - 1

\* the second brand of a type is about to be called after one delay of 8, and
\* the brand before it ended with a FailureRecord
C34_Witness ==
    /\ pc = "attempt"
    /\ brandIdx = 2
    /\ delayLog = [count |-> 1, last |-> 8]
    /\ failed_scrapes # << >>
    /\ failed_scrapes[Len(failed_scrapes)].index = << vtIdx, 1 >>

-----------------------------------------------------------------------------
(* C35: the counters of a run *)

Counters ==
    {"total_attempts", "successful_scrapes", "failed_scrapes", "invalid_data",
     "retries"}

\* C35: no step of scrape_all, or of an operation it invokes, lowers a counter
\* of the run statistics.
C35_CountersNeverDecrease ==
    [][\A k \in Counters : stats'[k] >= stats[k]]_vars

\* a second brand has added its records to a counter the first brand raised
C35_Witness ==
    /\ pc = "attempt_end"
    /\ brandBase.successful > 0
    /\ stats.successful_scrapes > brandBase.successful

-----------------------------------------------------------------------------
(* C36: the failure log is persisted apart from the records *)

\* save_data has handed the failure log to DataSaver.save_failed_scrapes
FailureLogHanded ==
    \E i \in DOMAIN ret.calls : ret.calls[i] = "save_failed_scrapes"

\* C36 (as claimed): whenever save_data is called with a non-empty failure
\* log, the log is handed to the failure-persist step, also when there is no
\* record to write and also when writing the records fails.
C36_FailureLogAlwaysHanded ==
    (ret.stage = "save_data" /\ failed_scrapes # << >>) => FailureLogHanded

-----------------------------------------------------------------------------
(* C37: a failed brand has no records *)

\* the records appended during the i-th logged call of _scrape_brand
AppendedBy(i) ==
    (IF i = Len(attemptLog) THEN Len(dealers_data)
                            ELSE attemptLog[i + 1].records)
    - attemptLog[i].records

\* the logged calls for the brand entry idx that appended a record
AppendingCalls(idx) ==
    { i \in DOMAIN attemptLog : attemptLog[i].index = idx /\ AppendedBy(i) > 0 }

\* C37: a brand entry with a FailureRecord has appended no record, and the
\* records of a brand entry come from at most one of its attempts.
C37_FailureOrRecords ==
    /\ \A f \in DOMAIN failed_scrapes :
          AppendingCalls(failed_scrapes[f].index) = {}
    /\ \A i \in DOMAIN attemptLog :
          Cardinality(AppendingCalls(attemptLog[i].index)) <= 1

\* one brand has ended with a FailureRecord and no record, another brand has
\* appended records in its one attempt
C37_Witness ==
    /\ pc = "brands"
    /\ failed_scrapes # << >>
    /\ AppendingCalls(failed_scrapes[1].index) = {}
    /\ \E i \in DOMAIN attemptLog :
          /\ attemptLog[i].index # failed_scrapes[1].index
          /\ AppendingCalls(attemptLog[i].index) = {i}

-----------------------------------------------------------------------------
(* C38: session cleanup *)

\* launch_browser returned a browser in this run
BrowserLaunched == session.browser # "unset"

-----------------------------------------------------------------------------
(* C39: the counters the batch path never writes *)

\* C39: in the crawl driven by scrape_all the counters total_attempts, retries
\* and failed_scrapes are 0 in every state, whatever number of city fetches
\* failed and of FailureRecords was appended; failed_scrapes does not follow
\* the length of the failure log.
C39_UnusedCountersStayZero ==
    /\ stats.total_attempts = 0
    /\ stats.retries = 0
    /\ stats.failed_scrapes = 0

\* a FailureRecord is in the log, a city fetch of the current brand has failed,
\* and the three counters are still 0
C39_Witness ==
    /\ pc = "brand_end"
    /\ failed_scrapes # << >>
    /\ FailedNavs # {}
    /\ stats.failed_scrapes = 0
    /\ stats.total_attempts = 0
    /\ stats.retries = 0

====
